---------------------------- MODULE Spec2Model ----------------------------
(***************************************************************************)
(* A model of the trading services of argus-bot:                           *)
(*   - MultiAIBrokerService (the simulated trader pool and its autonomous  *)
(*     scheduler),                                                         *)
(*   - PaperBrokerService (the position ledger),                           *)
(*   - AutoScannerService driving AITradingAgent on the paper ledger,      *)
(*   - CryptoBot (the server-side bot),                                    *)
(*   - ChironEngine and ArgusDecisionEngine (regime weights and the        *)
(*     decision computed from the module scores),                          *)
(*   - the signal modules OrionAnalysisService, PhoenixEngine and          *)
(*     AtlasEngine (the score each returns for a window or a report).      *)
(*                                                                         *)
(* JavaScript numbers are modelled as exact rationals <<n, d>> (d > 0, in  *)
(* lowest terms); IEEE-754 rounding is not modelled.  JavaScript runs one  *)
(* callback at a time, so an action is the code between two suspension     *)
(* points (await) of a handler.                                            *)
(*                                                                         *)
(* The services are module singletons that share no state across the      *)
(* groups above, so a behaviour exercises one group, chosen by `service`   *)
(* in the initial state.                                                   *)
(***************************************************************************)
EXTENDS Integers, Sequences, FiniteSets, TLC

\* ------------------------------------------------------------------------
\* Bounds of the model
\* ------------------------------------------------------------------------

\* personalities modelled (a prefix of the list in runAnalysis)
NumPersonalities == 1

\* personalities of the runs in which a tick passes from one trader to the next
WidePersonalities == 2

\* symbols modelled per personality (a prefix of config.symbols)
NumSymbols == 2

\* symbols of the single-tick runs that fill a trader's positions
DeepSymbols == 5

\* runAnalysis calls (ticks) started in one behaviour
MaxTicks == 2

\* setInterval timers created in one behaviour
MaxTimers == 2

\* resetAll / resetTrader / reset calls in one behaviour
MaxResets == 1

\* buy / sell / reset calls on the paper ledger in one behaviour
MaxCalls == 3

\* buys of the session whose saved ledger the paper broker starts from
PriorBuys == 7

\* restarts of the server process that runs CryptoBot in one behaviour
MaxRestarts == 1

\* ------------------------------------------------------------------------
\* Exact rational arithmetic (JavaScript numbers)
\* ------------------------------------------------------------------------

Abs(x) == IF x < 0 THEN -x ELSE x

RECURSIVE GCD(_, _)
GCD(a, b) == IF b = 0 THEN a ELSE GCD(b, a % b)

\* the rational n/d in lowest terms with a positive denominator
Rat(n, d) ==
    LET g == GCD(Abs(n), Abs(d))
        s == IF d < 0 THEN -1 ELSE 1
    IN <<(s * n) \div g, (s * d) \div g>>

Int2Rat(i) == <<i, 1>>

RAdd(a, b) ==
    LET g == GCD(a[2], b[2])
        l == (a[2] \div g) * b[2]
    IN Rat(a[1] * (l \div a[2]) + b[1] * (l \div b[2]), l)

RNeg(a) == <<-a[1], a[2]>>

RSub(a, b) == RAdd(a, RNeg(b))

RMul(a, b) ==
    LET g1 == GCD(Abs(a[1]), b[2])
        g2 == GCD(Abs(b[1]), a[2])
    IN Rat((a[1] \div g1) * (b[1] \div g2), (a[2] \div g2) * (b[2] \div g1))

RDiv(a, b) == RMul(a, Rat(b[2], b[1]))

RLe(a, b) == RSub(a, b)[1] <= 0

RLt(a, b) == RSub(a, b)[1] < 0

RMin(a, b) == IF RLe(a, b) THEN a ELSE b

\* Math.floor and Math.ceil
RFloor(a) == a[1] \div a[2]

RCeil(a) == -((-a[1]) \div a[2])

\* the sum of a sequence of rationals
RECURSIVE RSum(_)
RSum(s) == IF s = <<>> THEN <<0, 1>> ELSE RAdd(Head(s), RSum(Tail(s)))


\* ------------------------------------------------------------------------
\* Inputs: what the market-data provider and the decision engine return
\* ------------------------------------------------------------------------

\* quote.price values (100 -> 94 is -6%, 100 -> 112 is +12%)
Prices == {94, 100, 112}

\* decision.compositeScore values, around the thresholds of the personalities
Scores == {41, 58, 60}

\* ------------------------------------------------------------------------
\* MultiAIBrokerService: configuration
\* ------------------------------------------------------------------------

personalities == <<"aggressive", "balanced", "conservative", "high-frequency", "value">>

THRESHOLDS ==
    ("aggressive" :>
        [buyScore |-> 58, sellScore |-> 42, positionSize |-> Rat(25, 100),
         maxPositions |-> 4, stopLoss |-> Rat(6, 100), takeProfit |-> Rat(12, 100),
         symbols |-> <<"NVDA", "AMD", "TSLA", "PLTR", "META", "MSFT">>]) @@
    ("balanced" :>
        [buyScore |-> 62, sellScore |-> 38, positionSize |-> Rat(20, 100),
         maxPositions |-> 5, stopLoss |-> Rat(5, 100), takeProfit |-> Rat(10, 100),
         symbols |-> <<"AAPL", "MSFT", "GOOGL", "AMZN", "V", "MA">>]) @@
    ("conservative" :>
        [buyScore |-> 70, sellScore |-> 30, positionSize |-> Rat(15, 100),
         maxPositions |-> 6, stopLoss |-> Rat(4, 100), takeProfit |-> Rat(8, 100),
         symbols |-> <<"JNJ", "PG", "XOM", "V", "GC=F", "KO">>]) @@
    ("high-frequency" :>
        [buyScore |-> 50, sellScore |-> 50, positionSize |-> Rat(10, 100),
         maxPositions |-> 10, stopLoss |-> Rat(15, 1000), takeProfit |-> Rat(3, 100),
         symbols |-> <<"COIN", "MSTR", "RIOT", "MARA", "PLTR", "AMD">>]) @@
    ("value" :>
        [buyScore |-> 75, sellScore |-> 25, positionSize |-> Rat(25, 100),
         maxPositions |-> 4, stopLoss |-> Rat(8, 100), takeProfit |-> Rat(25, 100),
         symbols |-> <<"BRK-B", "JPM", "UNH", "CVX", "MCD", "PEP">>])


\* initialCapital of every trader
MultiInitialCapital == 1000

\* the smallest notional executeBuy is called with (amount >= 10)
MultiMinAmount == 10

\* ------------------------------------------------------------------------
\* State
\* ------------------------------------------------------------------------

VARIABLES
    service,          \* the group of services this behaviour exercises
    scope,            \* the bounds of this behaviour: symbols, ticks, resets
    \* MultiAIBrokerService
    heap,             \* the AITrader objects: object id -> trader
    traders,          \* this.traders: personality -> object id
    multiIsRunning,   \* this.isRunning
    multiTimers,      \* live setInterval timers (startAutonomous never clears one)
    ticks,            \* the runAnalysis calls started: their frames
    delivered,        \* what the await of the latest tick step delivered
    multiStorage,     \* localStorage[STORAGE_KEY]
    multiResets,      \* resetAll / resetTrader calls so far
    \* PaperBrokerService
    cash,             \* this.cash
    positions,        \* this.positions: symbol -> [shares, avgCost]
    trades,           \* this.trades, most recent first
    startingCapital,  \* this.startingCapital
    paperStorage,     \* localStorage['argus_portfolio']
    call,             \* the latest call on the ledger and its arguments
    result,           \* what that call returned: "null" or "trade"
    calls,            \* calls so far
    view,             \* the latest accessor call and the value it returned
    \* AITradingAgent and AutoScannerService
    isAutoTrading,    \* AITradingAgent.isAutoTrading
    agentStorage,     \* localStorage['argus_autotrading']
    scannerIsRunning, \* AutoScannerService.isRunning
    intervalId,       \* AutoScannerService.intervalId (0: null)
    scannerTimers,    \* ids of the live setInterval timers of the scanner
    scans,            \* the scanWatchlist calls started: their frames
    scanHistory,      \* AutoScannerService.scanHistory: executedTrades, latest first
    \* CryptoBot
    botState,         \* CryptoBot.state
    botIntervalId,    \* CryptoBot.intervalId (0: null)
    botTimers,        \* ids of the live setInterval timers of the bot's process
    botTicks,         \* the runAnalysis calls of the bot: their frames
    botFile,          \* crypto_bot_state.json
    botRestarts,      \* restarts of the process so far
    \* ChironEngine and ArgusDecisionEngine
    moduleInputs,     \* the module results the page holds for its symbol
    dynamicConfig,    \* ChironEngine.dynamicConfig (<<>>: null)
    chironStorage,    \* localStorage['chiron_learned_weights'] (<<>>: no item)
    outcome,          \* the latest evaluate / makeDecision call and what it returned
    signal,           \* the latest call of a signal module and the score it returned
    \* ticks run one after the other on market data that holds still
    market,           \* symbol -> what its fetch delivers (<<>>: no market yet)
    reruns            \* the moves of the market, the ticks run since the last move,
                      \* and whether one of them sold

paperVars == <<cash, positions, trades, startingCapital, paperStorage, call, result, calls,
              view>>

scannerVars == <<isAutoTrading, agentStorage, scannerIsRunning, intervalId, scannerTimers,
                 scans, scanHistory>>

botVars == <<botState, botIntervalId, botTimers, botTicks, botFile, botRestarts>>

multiVars == <<heap, traders, multiIsRunning, multiTimers, ticks, delivered, multiStorage,
               multiResets>>

engineVars == <<moduleInputs, dynamicConfig, chironStorage, outcome, signal>>

marketVars == <<market, reruns>>

vars == <<service, scope, multiVars, paperVars, scannerVars, botVars, engineVars, marketVars>>

\* the personalities the behaviour runs: a prefix of the list in runAnalysis
Personalities == SubSeq(personalities, 1, scope.personalities)

PersonalitySet == {Personalities[k] : k \in 1..scope.personalities}

\* ------------------------------------------------------------------------
\* MultiAIBrokerService: the ledger of one trader
\* ------------------------------------------------------------------------

EmptyMap == [x \in {} |-> x]

Put(m, k, v) == [x \in DOMAIN m \cup {k} |-> IF x = k THEN v ELSE m[x]]

Remove(m, k) == [x \in DOMAIN m \ {k} |-> m[x]]

\* the fields of an AITrader that buy, sell and the tick read or write
\* (name, emoji, lastThought and the derived statistics are left out)
NewTrader(p) ==
    [id |-> p, currentCash |-> Int2Rat(MultiInitialCapital), positions |-> EmptyMap,
     trades |-> <<>>]

\* position.pnlPercent as the tick refreshes it
PnlPercent(price, avgCost) ==
    RMul(RDiv(Int2Rat(price - avgCost), Int2Rat(avgCost)), Int2Rat(100))

executeBuy(trader, symbol, price, amount, reason) ==
    LET shares == RDiv(amount, Int2Rat(price))
    IN [id |-> trader.id,
        currentCash |-> RSub(trader.currentCash, amount),
        positions |-> Put(trader.positions, symbol,
                          [shares |-> shares, avgCost |-> price, currentPrice |-> price]),
        trades |-> <<[symbol |-> symbol, action |-> "BUY", price |-> price,
                      shares |-> shares, amount |-> amount, timestamp |-> "Date",
                      reason |-> reason]>>
                   \o trader.trades]

executeSell(trader, symbol, price, reason) ==
    IF symbol \notin DOMAIN trader.positions THEN trader
    ELSE
    LET position == trader.positions[symbol]
        amount == RMul(position.shares, Int2Rat(price))
        pnl == RMul(Int2Rat(price - position.avgCost), position.shares)
    IN [id |-> trader.id,
        currentCash |-> RAdd(trader.currentCash, amount),
        positions |-> Remove(trader.positions, symbol),
        trades |-> <<[symbol |-> symbol, action |-> "SELL", price |-> price,
                      shares |-> position.shares, amount |-> amount,
                      timestamp |-> "Date", reason |-> reason, pnl |-> pnl]>>
                   \o trader.trades]

\* mutant: the sell signal is checked before the stop-loss
ExitReasonSignalFirst(config, pnlPercent, score) ==
    IF score < config.sellScore THEN "SELL-SIGNAL"
    ELSE IF RLe(pnlPercent, RNeg(RMul(config.stopLoss, Int2Rat(100)))) THEN "STOP-LOSS"
    ELSE IF RLe(RMul(config.takeProfit, Int2Rat(100)), pnlPercent) THEN "TAKE-PROFIT"
    ELSE "HOLD"

\* the exit checks of a held position, in the order of the code
ExitReason(config, pnlPercent, score) ==
    IF RLe(pnlPercent, RNeg(RMul(config.stopLoss, Int2Rat(100)))) THEN "STOP-LOSS"
    ELSE IF RLe(RMul(config.takeProfit, Int2Rat(100)), pnlPercent) THEN "TAKE-PROFIT"
    ELSE IF score < config.sellScore THEN "SELL-SIGNAL"
    ELSE "HOLD"

\* the notional of an entry
BuyAmount(trader, config) == RMul(trader.currentCash, config.positionSize)

\* mutant: the open-position count is not compared with maxPositions
EntryAllowedNoMax(trader, config, score) ==
    /\ score >= config.buyScore
    /\ RLe(Int2Rat(MultiMinAmount), BuyAmount(trader, config))
    /\ RLe(BuyAmount(trader, config), trader.currentCash)

\* the entry checks of a symbol without a position
EntryAllowed(trader, config, score) ==
    /\ score >= config.buyScore
    /\ Cardinality(DOMAIN trader.positions) < config.maxPositions
    /\ RLe(Int2Rat(MultiMinAmount), BuyAmount(trader, config))
    /\ RLe(BuyAmount(trader, config), trader.currentCash)

ExitStep(trader, config, symbol, price, score) ==
    LET position == trader.positions[symbol]
        refreshed == [trader EXCEPT !.positions[symbol].currentPrice = price]
        reason == ExitReason(config, PnlPercent(price, position.avgCost), score)
    IN IF reason = "HOLD" THEN refreshed
       ELSE executeSell(refreshed, symbol, price, reason)

EntryStep(trader, config, symbol, price, score) ==
    IF EntryAllowed(trader, config, score)
    THEN executeBuy(trader, symbol, price, BuyAmount(trader, config), "BUY")
    ELSE trader

\* mutant: the entry check runs after the exit checks instead of in their else branch
SymbolStepReenter(trader, config, symbol, price, score) ==
    LET exited == IF symbol \in DOMAIN trader.positions
                  THEN ExitStep(trader, config, symbol, price, score)
                  ELSE trader
    IN IF symbol \in DOMAIN exited.positions THEN exited
       ELSE EntryStep(exited, config, symbol, price, score)

\* what analyzeAndTrade does for one symbol once its data has arrived
SymbolStep(trader, config, symbol, price, score) ==
    IF symbol \in DOMAIN trader.positions
    THEN ExitStep(trader, config, symbol, price, score)
    ELSE EntryStep(trader, config, symbol, price, score)

\* ------------------------------------------------------------------------
\* PaperBrokerService
\* ------------------------------------------------------------------------

INITIAL_CAPITAL == 100000

\* 20% max per position
MAX_POSITION_SIZE == Rat(20, 100)

STOP_LOSS_PERCENT == -10

\* buy keeps a 10% cash buffer
CashFraction == Rat(9, 10)

\* buy returns null below this investment
MinInvestment == 100

\* symbols and prices the calls on the paper ledger are made with; at 15000 the
\* first buy sizes to one share, at 25000 to none, and 45 is affordable with
\* the cash the prior session leaves
PaperSymbols == {"AAPL", "MSFT"}

PaperPrices == {45, 100, 15000, 25000}

\* the quotes the sales are made at
PaperSellPrices == {45, 100}

\* the ledger as one value: the fields of the PaperBrokerService instance
Ledger == [cash |-> cash, positions |-> positions, trades |-> trades,
           startingCapital |-> startingCapital]

InitialLedger ==
    [cash |-> Int2Rat(INITIAL_CAPITAL), positions |-> EmptyMap, trades |-> <<>>,
     startingCapital |-> INITIAL_CAPITAL]

\* the value at price of the positions in S, a symbol missing from prices at avgCost
RECURSIVE PositionsValue(_, _, _, _)
PositionsValue(pos, S, symbol, price) ==
    IF S = {} THEN <<0, 1>>
    ELSE LET x == CHOOSE y \in S : TRUE
             p == IF x = symbol THEN Int2Rat(price) ELSE pos[x].avgCost
         IN RAdd(RMul(Int2Rat(pos[x].shares), p),
                 PositionsValue(pos, S \ {x}, symbol, price))

\* getTotalValue(new Map([[symbol, price]]))
getTotalValue(l, symbol, price) ==
    RAdd(l.cash, PositionsValue(l.positions, DOMAIN l.positions, symbol, price))

\* the investment buy sizes
Investment(l, symbol, price) ==
    RMin(RMul(getTotalValue(l, symbol, price), MAX_POSITION_SIZE),
         RMul(l.cash, CashFraction))

\* mutant: the average cost of a position is the price of its last buy
BlendPositionLastPrice(l, symbol, shares, price, total) ==
    IF symbol \in DOMAIN l.positions
    THEN [shares |-> l.positions[symbol].shares + shares, avgCost |-> Int2Rat(price)]
    ELSE [shares |-> shares, avgCost |-> Int2Rat(price)]

\* the position after buying shares for total, blended by quantity
BlendPosition(l, symbol, shares, price, total) ==
    IF symbol \in DOMAIN l.positions
    THEN LET existing == l.positions[symbol]
             totalShares == existing.shares + shares
             totalCost == RAdd(RMul(Int2Rat(existing.shares), existing.avgCost),
                               Int2Rat(total))
         IN [shares |-> totalShares, avgCost |-> RDiv(totalCost, Int2Rat(totalShares))]
    ELSE [shares |-> shares, avgCost |-> Int2Rat(price)]

\* mutant: buy does not take the cost out of cash
CashAfterBuyUncharged(l, total) == l.cash

\* this.cash -= total
CashAfterBuy(l, total) == RSub(l.cash, Int2Rat(total))

\* mutant: buy has no minimum investment
BuyRejectedNoMinimum(investment, shares) == shares < 1

\* the two early returns of buy
BuyRejected(investment, shares) ==
    RLt(investment, Int2Rat(MinInvestment)) \/ shares < 1

\* buy(symbol, price, reason, argusScore): the ledger after it and what it returns
\* (reason and argusScore are copied into the trade and left out; of the
\* timestamp the model keeps its type, a Date object or an ISO string)
buy(l, symbol, price) ==
    LET investment == Investment(l, symbol, price)
        shares == RFloor(RDiv(investment, Int2Rat(price)))
        total == shares * price
    IN IF BuyRejected(investment, shares) THEN [ledger |-> l, result |-> "null"]
       ELSE [ledger |->
                [cash |-> CashAfterBuy(l, total),
                 positions |-> Put(l.positions, symbol,
                                   BlendPosition(l, symbol, shares, price, total)),
                 trades |-> <<[timestamp |-> "Date", symbol |-> symbol, action |-> "BUY",
                               shares |-> shares, price |-> price, total |-> total]>>
                            \o l.trades,
                 startingCapital |-> l.startingCapital],
             result |-> "trade"]

\* mutant: sell takes half of the position whatever sellAll says
SharesToSellHalf(shares, sellAll) == RCeil(Rat(shares, 2))

\* the shares sell takes out of a position
SharesToSell(shares, sellAll) == IF sellAll THEN shares ELSE RCeil(Rat(shares, 2))

\* the position map after a sale of sharesToSell shares
PositionsAfterSell(pos, symbol, sharesToSell, sellAll) ==
    IF sellAll THEN Remove(pos, symbol)
    ELSE Put(pos, symbol, [shares |-> pos[symbol].shares - sharesToSell,
                           avgCost |-> pos[symbol].avgCost])

\* sell(symbol, price, reason, argusScore, sellAll)
sell(l, symbol, price, sellAll) ==
    IF symbol \notin DOMAIN l.positions \/ l.positions[symbol].shares <= 0
    THEN [ledger |-> l, result |-> "null"]
    ELSE LET sharesToSell == SharesToSell(l.positions[symbol].shares, sellAll)
             total == sharesToSell * price
         IN [ledger |->
                [cash |-> RAdd(l.cash, Int2Rat(total)),
                 positions |-> PositionsAfterSell(l.positions, symbol, sharesToSell, sellAll),
                 trades |-> <<[timestamp |-> "Date", symbol |-> symbol, action |-> "SELL",
                               shares |-> sharesToSell, price |-> price, total |-> total]>>
                            \o l.trades,
                 startingCapital |-> l.startingCapital],
             result |-> "trade"]

\* the ledger after n straight buys of symbol at price
RECURSIVE AfterBuys(_, _, _)
AfterBuys(n, symbol, price) ==
    IF n = 0 THEN InitialLedger
    ELSE CHOOSE after \in {buy(l, symbol, price).ledger : l \in {AfterBuys(n - 1, symbol, price)}} :
            TRUE

\* Array.from(map.entries()), the order of the entries aside
Entries(map) == {<<k, map[k]>> : k \in DOMAIN map}

\* new Map(entries)
NewMap(entries) ==
    [k \in {e[1] : e \in entries} |-> (CHOOSE e \in entries : e[1] = k)[2]]

\* JSON.stringify of a trade: Date.prototype.toJSON turns the timestamp into
\* its ISO string
TradeToJSON(trade) == [trade EXCEPT !.timestamp = "string"]

\* new Date(t.timestamp) on every trade, as loadState of the paper broker does
ReviveTrades(stored) ==
    [i \in 1..Len(stored) |-> [stored[i] EXCEPT !.timestamp = "Date"]]

\* an item of localStorage: absent, or a text that JSON.parse rejects, or the
\* text of an object `state` with some keys
NoItem == [saved |-> FALSE, parsable |-> FALSE, state |-> EmptyMap]

Garbage == [saved |-> TRUE, parsable |-> FALSE, state |-> EmptyMap]

\* JSON.stringify of the ledger (saveState)
PaperSaved(l) ==
    [saved |-> TRUE, parsable |-> TRUE,
     state |-> [cash |-> l.cash,
                positions |-> Entries(l.positions),
                trades |-> [i \in 1..Len(l.trades) |-> TradeToJSON(l.trades[i])],
                startingCapital |-> l.startingCapital]]

\* a stored object without some of its keys
Without(item, keys) ==
    [item EXCEPT !.state = [k \in DOMAIN item.state \ keys |-> item.state[k]]]

\* reading a key the object does not have gives undefined; as a number it is
\* written like NaN
Undefined == <<0, 0>>

\* loadState on the fields l of a new instance: the assignments run in order
\* inside one try, so a throw keeps those already made
loadState(item, l) ==
    IF ~item.saved THEN [ledger |-> l, result |-> "none"]
    ELSE IF ~item.parsable THEN [ledger |-> l, result |-> "failed"]
    ELSE LET state == item.state
             l1 == [l EXCEPT !.cash = IF "cash" \in DOMAIN state THEN state.cash
                                      ELSE Undefined]
             l2 == [l1 EXCEPT !.positions = IF "positions" \in DOMAIN state
                                            THEN NewMap(state.positions)
                                            ELSE EmptyMap]
         IN IF "trades" \notin DOMAIN state THEN [ledger |-> l2, result |-> "failed"]
            ELSE [ledger |->
                    [l2 EXCEPT !.trades = ReviveTrades(state.trades),
                               !.startingCapital =
                                   IF "startingCapital" \in DOMAIN state
                                      /\ state.startingCapital # 0
                                   THEN state.startingCapital
                                   ELSE INITIAL_CAPITAL],
                  result |-> "loaded"]

NoCall == [op |-> "none", symbol |-> "", price |-> 0, sellAll |-> FALSE]

\* the ledger variables take the value l
SetLedger(l) ==
    /\ cash' = l.cash
    /\ positions' = l.positions
    /\ trades' = l.trades
    /\ startingCapital' = l.startingCapital

\* a call that returns a trade has saved the state; one that returns null has not
PaperBuy(symbol, price) ==
    /\ service = "paper"
    /\ calls < scope.calls
    /\ LET r == buy(Ledger, symbol, price)
       IN /\ SetLedger(r.ledger)
          /\ result' = r.result
          /\ paperStorage' = IF r.result = "trade" THEN PaperSaved(r.ledger)
                              ELSE paperStorage
    /\ call' = [op |-> "buy", symbol |-> symbol, price |-> price, sellAll |-> FALSE]
    /\ calls' = calls + 1
    /\ UNCHANGED <<service, scope, engineVars, marketVars, multiVars, scannerVars, botVars, view>>

PaperSell(symbol, price, sellAll) ==
    /\ service = "paper"
    /\ calls < scope.calls
    /\ LET r == sell(Ledger, symbol, price, sellAll)
       IN /\ SetLedger(r.ledger)
          /\ result' = r.result
          /\ paperStorage' = IF r.result = "trade" THEN PaperSaved(r.ledger)
                              ELSE paperStorage
    /\ call' = [op |-> "sell", symbol |-> symbol, price |-> price, sellAll |-> sellAll]
    /\ calls' = calls + 1
    /\ UNCHANGED <<service, scope, engineVars, marketVars, multiVars, scannerVars, botVars, view>>

\* reset()
PaperReset ==
    /\ service \in {"paper", "scanner"}
    /\ calls < scope.calls
    /\ SetLedger(InitialLedger)
    /\ paperStorage' = PaperSaved(InitialLedger)
    /\ call' = [op |-> "reset", symbol |-> "", price |-> 0, sellAll |-> FALSE]
    /\ result' = "none"
    /\ calls' = calls + 1
    /\ UNCHANGED <<service, scope, engineVars, marketVars, multiVars, scannerVars, botVars, view>>

\* a page load: a new PaperBrokerService is constructed and runs loadState
PaperReload ==
    /\ service = "paper"
    /\ LET r == loadState(paperStorage, InitialLedger)
       IN /\ SetLedger(r.ledger)
          /\ result' = r.result
    /\ call' = [op |-> "load", symbol |-> "", price |-> 0, sellAll |-> FALSE]
    /\ UNCHANGED <<service, scope, engineVars, marketVars, multiVars, scannerVars, botVars, paperStorage,
                   calls, view>>

\* PaperBrokerService.shouldStopLoss
shouldStopLoss(l, symbol, currentPrice) ==
    IF symbol \notin DOMAIN l.positions THEN FALSE
    ELSE LET avgCost == l.positions[symbol].avgCost
             plPercent == RMul(RDiv(RSub(Int2Rat(currentPrice), avgCost), avgCost),
                               Int2Rat(100))
         IN RLe(plPercent, Int2Rat(STOP_LOSS_PERCENT))

\* a quotient of two numbers: x / 0 is NaN <<0, 0>> or an infinity <<+-1, 0>>
RDivJs(a, b) ==
    IF b[1] = 0 THEN <<(IF a[1] > 0 THEN 1 ELSE IF a[1] < 0 THEN -1 ELSE 0), 0>>
    ELSE RDiv(a, b)

\* one entry of getPortfolio(...).positions
PortfolioPosition(l, sym, symbol, price) ==
    LET pos == l.positions[sym]
        currentPrice == IF sym = symbol THEN Int2Rat(price) ELSE pos.avgCost
        marketValue == RMul(Int2Rat(pos.shares), currentPrice)
        costBasis == RMul(Int2Rat(pos.shares), pos.avgCost)
        unrealizedPL == RSub(marketValue, costBasis)
        ratio == RDivJs(unrealizedPL, costBasis)
    IN [symbol |-> sym, shares |-> pos.shares, avgCost |-> pos.avgCost,
        currentPrice |-> currentPrice, marketValue |-> marketValue,
        unrealizedPL |-> unrealizedPL,
        unrealizedPLPercent |-> IF ratio[2] = 0 THEN ratio ELSE RMul(ratio, Int2Rat(100))]

\* getPortfolio(new Map([[symbol, price]]))
getPortfolio(l, symbol, price) ==
    LET totalValue == getTotalValue(l, symbol, price)
        totalPL == RSub(totalValue, Int2Rat(l.startingCapital))
    IN [cash |-> l.cash,
        positions |-> [sym \in DOMAIN l.positions |-> PortfolioPosition(l, sym, symbol, price)],
        totalValue |-> totalValue,
        totalPL |-> totalPL,
        totalPLPercent |-> RMul(RDivJs(totalPL, Int2Rat(l.startingCapital)), Int2Rat(100))]

\* getPosition(symbol): the entry of the map, or null
getPosition(l, symbol) ==
    IF symbol \in DOMAIN l.positions
    THEN [found |-> TRUE, shares |-> l.positions[symbol].shares,
          avgCost |-> l.positions[symbol].avgCost]
    ELSE [found |-> FALSE, shares |-> 0, avgCost |-> <<0, 1>>]

\* the first count elements of a list
Slice(list, count) == SubSeq(list, 1, IF count < Len(list) THEN count ELSE Len(list))

\* mutant: getRecentTrades takes the trades out of the history (splice)
getRecentTradesSplice(l, count) ==
    [ledger |-> [l EXCEPT !.trades = SubSeq(l.trades, Len(Slice(l.trades, count)) + 1,
                                            Len(l.trades))],
     value |-> Slice(l.trades, count)]

\* getRecentTrades(count): this.trades.slice(0, count) copies
getRecentTrades(l, count) == [ledger |-> l, value |-> Slice(l.trades, count)]

\* the counts getRecentTrades is called with: the default 10, and 1
RecentCounts == {1, 10}

NoView == [op |-> "none", value |-> <<>>]

\* an accessor call that returned value
Viewed(op, symbol, price, value) ==
    /\ service = "paper"
    /\ calls < scope.calls
    /\ view' = [op |-> op, value |-> value]
    /\ call' = [op |-> op, symbol |-> symbol, price |-> price, sellAll |-> FALSE]
    /\ result' = "none"
    /\ calls' = calls + 1
    /\ UNCHANGED <<service, scope, engineVars, marketVars, multiVars, scannerVars, botVars, paperStorage>>

PaperGetPortfolio(symbol, price) ==
    /\ Viewed("getPortfolio", symbol, price, getPortfolio(Ledger, symbol, price))
    /\ UNCHANGED <<cash, positions, trades, startingCapital>>

PaperGetPosition(symbol) ==
    /\ Viewed("getPosition", symbol, 0, getPosition(Ledger, symbol))
    /\ UNCHANGED <<cash, positions, trades, startingCapital>>

PaperGetTrades ==
    /\ Viewed("getTrades", "", 0, trades)
    /\ UNCHANGED <<cash, positions, trades, startingCapital>>

PaperGetRecentTrades(count) ==
    LET r == getRecentTrades(Ledger, count)
    IN /\ Viewed("getRecentTrades", "", count, r.value)
       /\ SetLedger(r.ledger)

PaperShouldStopLoss(symbol, price) ==
    /\ Viewed("shouldStopLoss", symbol, price, shouldStopLoss(Ledger, symbol, price))
    /\ UNCHANGED <<cash, positions, trades, startingCapital>>

\* the ledger variables while another service is exercised
IdlePaper ==
    /\ cash = InitialLedger.cash
    /\ positions = EmptyMap
    /\ trades = <<>>
    /\ startingCapital = INITIAL_CAPITAL
    /\ paperStorage = NoItem
    /\ call = NoCall
    /\ result = "none"
    /\ calls = 0
    /\ view = NoView

\* ------------------------------------------------------------------------
\* MultiAIBrokerService: ticks (runAnalysis) and the scheduler
\* ------------------------------------------------------------------------

\* what one symbol's await delivers: the quote and the decision, or a throw
\* (fetchQuote or fetchCandles rejects) that the catch of the loop swallows
Data ==
    {[ok |-> TRUE, price |-> pr, score |-> sc] : pr \in Prices, sc \in Scores}
    \cup {[ok |-> FALSE, price |-> 0, score |-> 0]}

NoData == [ok |-> FALSE, price |-> 0, score |-> 0]

InFlight == {i \in 1..Len(ticks) : ticks[i].pc = "fetch"}

Range(f) == {f[x] : x \in DOMAIN f}

MaxOf(S) == CHOOSE x \in S : \A y \in S : y <= x

\* objects no longer referenced by this.traders or by a running tick are dropped
Collect(h, map, tks) ==
    LET live == Range(map) \cup
                {tks[i].trader : i \in {j \in 1..Len(tks) : tks[j].pc = "fetch"}}
    IN [id \in DOMAIN h \cap live |-> h[id]]

\* { ...trader, positions: Array.from(trader.positions.entries()) } through
\* JSON.stringify
TraderToJSON(trader) ==
    [id |-> trader.id, currentCash |-> trader.currentCash,
     positions |-> Entries(trader.positions),
     trades |-> [i \in 1..Len(trader.trades) |-> TradeToJSON(trader.trades[i])]]

\* JSON.stringify of the traders (saveState)
Snapshot(h, map) ==
    [saved |-> TRUE, parsable |-> TRUE,
     state |-> [p \in DOMAIN map |-> TraderToJSON(h[map[p]])]]

\* Object.assign(trader, { ...data, positions: new Map(data.positions || []),
\* trades: data.trades || [] })
AssignTrader(trader, data) ==
    [id |-> IF "id" \in DOMAIN data THEN data.id ELSE trader.id,
     currentCash |-> IF "currentCash" \in DOMAIN data THEN data.currentCash
                     ELSE trader.currentCash,
     positions |-> IF "positions" \in DOMAIN data THEN NewMap(data.positions)
                   ELSE EmptyMap,
     trades |-> IF "trades" \in DOMAIN data THEN data.trades ELSE <<>>]

\* loadState of the trader pool on the traders initializeTraders made: the
\* trader of personality p after it
LoadedTrader(item, p) ==
    IF ~item.saved \/ ~item.parsable \/ p \notin DOMAIN item.state THEN NewTrader(p)
    ELSE AssignTrader(NewTrader(p), item.state[p])

\* the frame of a runAnalysis call suspended on the first symbol's fetch:
\* analyzeAndTrade has read its trader object from this.traders
NewTick(origin) ==
    [origin |-> origin, pc |-> "fetch", p |-> 1, s |-> 1,
     trader |-> traders[Personalities[1]], executed |-> <<>>]

\* the trades a step put at the head of trader.trades
Executed(p, before, after) ==
    LET n == Len(after.trades) - Len(before.trades)
    IN [k \in 1..n |->
          [personality |-> p, symbol |-> after.trades[n + 1 - k].symbol,
           action |-> after.trades[n + 1 - k].action]]

\* mutant: the callback of setInterval does not look at isRunning
TimerCallbackAlways(isRunning) == TRUE

\* the callback of setInterval runs runAnalysis only while isRunning
TimerCallbackRuns(isRunning) == isRunning

\* startAutonomous returns at once while isRunning
StartAutonomous ==
    /\ service = "multi"
    /\ ~multiIsRunning
    /\ Len(ticks) < scope.ticks
    /\ multiTimers < MaxTimers
    /\ multiIsRunning' = TRUE
    /\ ticks' = Append(ticks, NewTick("immediate"))
    /\ multiTimers' = multiTimers + 1
    /\ UNCHANGED <<service, scope, engineVars, marketVars, paperVars, scannerVars, botVars, heap, traders, delivered, multiStorage, multiResets>>

StopAutonomous ==
    /\ service = "multi"
    /\ multiIsRunning' = FALSE
    /\ UNCHANGED <<service, scope, engineVars, marketVars, paperVars, scannerVars, botVars, heap, traders, multiTimers, ticks, delivered, multiStorage,
                   multiResets>>

\* one of the live interval timers fires
TimerFires ==
    /\ service = "multi"
    /\ multiTimers > 0
    /\ TimerCallbackRuns(multiIsRunning)
    /\ Len(ticks) < scope.ticks
    /\ ticks' = Append(ticks, NewTick("timer"))
    /\ UNCHANGED <<service, scope, engineVars, marketVars, paperVars, scannerVars, botVars, heap, traders, multiIsRunning, multiTimers, delivered,
                   multiStorage, multiResets>>

\* runAnalysis called from the page
ManualRunAnalysis ==
    /\ service = "multi"
    /\ Len(ticks) < scope.ticks
    /\ ticks' = Append(ticks, NewTick("manual"))
    /\ UNCHANGED <<service, scope, engineVars, marketVars, paperVars, scannerVars, botVars, heap, traders, multiIsRunning, multiTimers, delivered,
                   multiStorage, multiResets>>

\* the frame leaves the loops at the first symbol that throws
NextFrameAbort(tk, ok) ==
    IF ~ok THEN [tk EXCEPT !.pc = "done", !.trader = 0]
    ELSE IF tk.s < scope.symbols THEN [tk EXCEPT !.s = @ + 1]
    ELSE IF tk.p < scope.personalities
    THEN [tk EXCEPT !.p = @ + 1, !.s = 1, !.trader = traders[Personalities[tk.p + 1]]]
    ELSE [tk EXCEPT !.pc = "done", !.trader = 0]

\* the frame after a symbol: the try / catch sits inside the loop over the
\* symbols, so the frame moves on whether the symbol threw (~ok) or not
NextFrame(tk, ok) ==
    IF tk.s < scope.symbols THEN [tk EXCEPT !.s = @ + 1]
    ELSE IF tk.p < scope.personalities
    THEN [tk EXCEPT !.p = @ + 1, !.s = 1, !.trader = traders[Personalities[tk.p + 1]]]
    ELSE [tk EXCEPT !.pc = "done", !.trader = 0]

\* tick i resumes with the data of its current symbol, trades, and suspends on
\* the next symbol; after the last symbol of the last personality it saves
TickStep(i) ==
    /\ service = "multi"
    /\ i \in InFlight
    /\ \E d \in Data :
        LET tk == ticks[i]
            p == Personalities[tk.p]
            symbol == THRESHOLDS[p].symbols[tk.s]
            before == heap[tk.trader]
            after == IF d.ok
                     THEN SymbolStep(before, THRESHOLDS[p], symbol, d.price, d.score)
                     ELSE before
            heap1 == [heap EXCEPT ![tk.trader] = after]
            tk1 == [tk EXCEPT !.executed = @ \o Executed(p, before, after)]
            tk2 == NextFrame(tk1, d.ok)
            ticks1 == [ticks EXCEPT ![i] = tk2]
        IN /\ ticks' = ticks1
           /\ delivered' = d
           /\ heap' = Collect(heap1, traders, ticks1)
           /\ multiStorage' = IF tk2.pc = "done" THEN Snapshot(heap1, traders)
                              ELSE multiStorage
    /\ UNCHANGED <<service, scope, engineVars, marketVars, paperVars, scannerVars, botVars, traders, multiIsRunning, multiTimers, multiResets>>

\* resetTrader: a new object replaces the trader; a running tick keeps the old one
ResetTrader(p) ==
    /\ service = "multi"
    /\ multiResets < scope.resets
    /\ LET id == MaxOf(DOMAIN heap) + 1
           traders1 == [traders EXCEPT ![p] = id]
           heap1 == [x \in DOMAIN heap \cup {id} |-> IF x = id THEN NewTrader(p) ELSE heap[x]]
       IN /\ traders' = traders1
          /\ heap' = Collect(heap1, traders1, ticks)
          /\ multiStorage' = Snapshot(heap1, traders1)
    /\ multiResets' = multiResets + 1
    /\ UNCHANGED <<service, scope, engineVars, marketVars, paperVars, scannerVars, botVars, multiIsRunning, multiTimers, ticks, delivered>>

\* resetAll: initializeTraders replaces every trader object
ResetAll ==
    /\ service = "multi"
    /\ multiResets < scope.resets
    /\ LET base == MaxOf(DOMAIN heap)
           traders1 == [p \in PersonalitySet |->
                          base + (CHOOSE k \in 1..scope.personalities : Personalities[k] = p)]
           heap1 == [x \in DOMAIN heap \cup Range(traders1) |->
                          IF x \in DOMAIN heap THEN heap[x]
                          ELSE NewTrader(Personalities[x - base])]
       IN /\ traders' = traders1
          /\ heap' = Collect(heap1, traders1, ticks)
          /\ multiStorage' = Snapshot(heap1, traders1)
    /\ multiResets' = multiResets + 1
    /\ UNCHANGED <<service, scope, engineVars, marketVars, paperVars, scannerVars, botVars, multiIsRunning, multiTimers, ticks, delivered>>

\* a page load: the timers and the running ticks of the old page are gone, a
\* new MultiAIBrokerService is constructed: initializeTraders, then loadState
MultiReload ==
    /\ service = "multi"
    /\ heap' = [k \in 1..scope.personalities |-> LoadedTrader(multiStorage, Personalities[k])]
    /\ traders' = [p \in PersonalitySet |->
                     CHOOSE k \in 1..scope.personalities : Personalities[k] = p]
    /\ multiIsRunning' = FALSE
    /\ multiTimers' = 0
    /\ ticks' = [i \in 1..Len(ticks) |-> [ticks[i] EXCEPT !.pc = "done", !.trader = 0]]
    /\ delivered' = NoData
    /\ UNCHANGED <<service, scope, engineVars, marketVars, paperVars, scannerVars, botVars, multiStorage,
                   multiResets>>

\* no market yet, no tick run
NoReruns == [moves |-> 0, count |-> 0, sold |-> FALSE]

\* the symbols the ticks of this behaviour fetch
MarketSymbols ==
    UNION {{THRESHOLDS[p].symbols[s] : s \in 1..scope.symbols} : p \in PersonalitySet}

\* the market changes: from now on every fetch of a symbol delivers quotes[symbol]
MarketMoves(quotes) ==
    /\ service = "rerun"
    /\ reruns.moves < scope.calls
    /\ market' = quotes
    /\ reruns' = [moves |-> reruns.moves + 1, count |-> 0, sold |-> FALSE]
    /\ UNCHANGED <<service, scope, engineVars, multiVars, paperVars, scannerVars, botVars>>

\* mutant: a held symbol whose score reaches buyScore is bought again
AnalyzeSymbolAdds(trader, config, symbol, price, score) ==
    LET stepped == SymbolStep(trader, config, symbol, price, score)
    IN IF symbol \in DOMAIN trader.positions /\ symbol \in DOMAIN stepped.positions
       THEN EntryStep(stepped, config, symbol, price, score)
       ELSE stepped

\* the body of the loop of analyzeAndTrade for one symbol whose fetch succeeded
AnalyzeSymbol(trader, config, symbol, price, score) ==
    SymbolStep(trader, config, symbol, price, score)

\* analyzeAndTrade(personality) from symbol s on, every fetch delivering what
\* the market holds
RECURSIVE AnalyzeFrom(_, _, _, _)
AnalyzeFrom(trader, p, quotes, s) ==
    IF s > scope.symbols THEN trader
    ELSE AnalyzeFrom(IF quotes[THRESHOLDS[p].symbols[s]].ok
                     THEN AnalyzeSymbol(trader, THRESHOLDS[p], THRESHOLDS[p].symbols[s],
                                        quotes[THRESHOLDS[p].symbols[s]].price,
                                        quotes[THRESHOLDS[p].symbols[s]].score)
                     ELSE trader,
                     p, quotes, s + 1)

\* runAnalysis from its first line to saveState, no other callback running in
\* between: every trader after analyzeAndTrade
RunAnalysis(h, map, quotes) ==
    [id \in DOMAIN h |->
        IF \E p \in DOMAIN map : map[p] = id
        THEN AnalyzeFrom(h[id], CHOOSE p \in DOMAIN map : map[p] = id, quotes, 1)
        ELSE h[id]]

\* some trader's history got a SELL on the way from h to h1
Sold(h, h1) ==
    \E id \in DOMAIN h :
        \E k \in 1..(Len(h1[id].trades) - Len(h[id].trades)) : h1[id].trades[k].action = "SELL"

\* a whole tick on the market as it stands
RunTick ==
    /\ service = "rerun"
    /\ market # <<>>
    /\ reruns.count < scope.ticks
    /\ \E h1 \in {RunAnalysis(heap, traders, market)} :
         /\ heap' = h1
         /\ multiStorage' = Snapshot(h1, traders)
         /\ reruns' = [reruns EXCEPT !.count = @ + 1, !.sold = @ \/ Sold(heap, h1)]
    /\ UNCHANGED <<service, scope, engineVars, paperVars, scannerVars, botVars, traders,
                   multiIsRunning, multiTimers, ticks, delivered, multiResets, market>>

\* the constructor: initializeTraders, then loadState finds nothing stored
IdleMulti ==
    /\ heap = [k \in 1..scope.personalities |-> NewTrader(Personalities[k])]
    /\ traders = [p \in PersonalitySet |->
                    CHOOSE k \in 1..scope.personalities : Personalities[k] = p]
    /\ multiIsRunning = FALSE
    /\ multiTimers = 0
    /\ ticks = <<>>
    /\ delivered = NoData
    /\ multiStorage = NoItem
    /\ multiResets = 0
    /\ market = <<>>
    /\ reruns = NoReruns

\* ------------------------------------------------------------------------
\* AITradingAgent and AutoScannerService (they trade on the paper ledger)
\* ------------------------------------------------------------------------

BUY_THRESHOLD == 50

SELL_THRESHOLD == 40

\* a held position is only added to at this score
AddThreshold == 65

\* scanHistory keeps the last 100 scans
ScanHistoryCap == 100

\* settings.watchlist (DEFAULT_SETTINGS) and WATCHLIST of the trading page
Watchlist == <<"AAPL", "MSFT", "GOOGL", "TSLA", "NVDA", "AMD", "META", "AMZN">>

\* the quotes and composite scores a scan sees: 90 is 10% under 100
ScanPrices == {90, 100}

ScanScores == {39, 50, 65}

\* what the awaits of analyzeAndTrade deliver, or a throw that scanWatchlist catches
ScanData ==
    {[ok |-> TRUE, price |-> pr, score |-> sc] : pr \in ScanPrices, sc \in ScanScores}
    \cup {NoData}

\* the action analyzeAndTrade determines
AgentAction(l, symbol, price, score) ==
    LET hasPosition == symbol \in DOMAIN l.positions /\ l.positions[symbol].shares > 0
    IN IF hasPosition /\ shouldStopLoss(l, symbol, price) THEN "SELL"
       ELSE IF hasPosition /\ score < SELL_THRESHOLD THEN "SELL"
       ELSE IF score >= BUY_THRESHOLD
       THEN IF ~hasPosition THEN "BUY"
            ELSE IF score >= AddThreshold THEN "BUY" ELSE "HOLD"
       ELSE "HOLD"

\* analyzeAndTrade after its awaits: the ledger after it and signal.executed
analyzeAndTrade(l, auto, symbol, price, score) ==
    LET action == AgentAction(l, symbol, price, score)
        r == IF action = "BUY" THEN buy(l, symbol, price) ELSE sell(l, symbol, price, TRUE)
    IN IF auto /\ action # "HOLD"
       THEN [ledger |-> r.ledger, executed |-> r.result = "trade"]
       ELSE [ledger |-> l, executed |-> FALSE]

\* the frame of a scanWatchlist call suspended on its first symbol; signals is
\* the length of its signals array
NewScan(origin) == [origin |-> origin, pc |-> "fetch", s |-> 1, signals |-> 0, executed |-> 0]

ScansInFlight == {i \in 1..Len(scans) : scans[i].pc = "fetch"}

\* the id setInterval returns
NewTimerId(live, current) == MaxOf(live \cup {current}) + 1

\* runScan up to its await: setAutoTrading(true), then scanWatchlist is entered
RunScan(origin) ==
    /\ isAutoTrading' = TRUE
    /\ agentStorage' = [saved |-> TRUE, value |-> TRUE]
    /\ scans' = Append(scans, NewScan(origin))

\* start returns at once while isRunning
ScannerStart ==
    /\ service = "scanner"
    /\ ~scannerIsRunning
    /\ Len(scans) < scope.ticks
    /\ RunScan("immediate")
    /\ intervalId' = NewTimerId(scannerTimers, intervalId)
    /\ scannerTimers' = scannerTimers \cup {intervalId'}
    /\ scannerIsRunning' = TRUE
    /\ UNCHANGED <<service, scope, engineVars, marketVars, multiVars, paperVars, botVars, scanHistory>>

\* clearInterval(null) is not called
ScannerStop ==
    /\ service = "scanner"
    /\ scannerTimers' = scannerTimers \ {intervalId}
    /\ intervalId' = 0
    /\ scannerIsRunning' = FALSE
    /\ UNCHANGED <<service, scope, engineVars, marketVars, multiVars, paperVars, botVars, isAutoTrading,
                   agentStorage, scans, scanHistory>>

\* restart: stop(), then start() finds isRunning false
ScannerRestart ==
    /\ service = "scanner"
    /\ Len(scans) < scope.ticks
    /\ RunScan("immediate")
    /\ intervalId' = NewTimerId(scannerTimers \ {intervalId}, 0)
    /\ scannerTimers' = (scannerTimers \ {intervalId}) \cup {intervalId'}
    /\ scannerIsRunning' = TRUE
    /\ UNCHANGED <<service, scope, engineVars, marketVars, multiVars, paperVars, botVars, scanHistory>>

\* a live interval timer fires: its callback calls runScan
ScannerTimerFires ==
    /\ service = "scanner"
    /\ scannerTimers # {}
    /\ Len(scans) < scope.ticks
    /\ RunScan("timer")
    /\ UNCHANGED <<service, scope, engineVars, marketVars, multiVars, paperVars, botVars, scannerIsRunning,
                   intervalId, scannerTimers, scanHistory>>

\* the trading page scans: it calls AITradingAgent.scanWatchlist itself
PageScan ==
    /\ service = "scanner"
    /\ Len(scans) < scope.ticks
    /\ scans' = Append(scans, NewScan("page"))
    /\ UNCHANGED <<service, scope, engineVars, marketVars, multiVars, paperVars, botVars, isAutoTrading,
                   agentStorage, scannerIsRunning, intervalId, scannerTimers, scanHistory>>

\* the trading page's switch: setAutoTrading(!autoTrading)
ToggleAutoTrading ==
    /\ service = "scanner"
    /\ isAutoTrading' = ~isAutoTrading
    /\ agentStorage' = [saved |-> TRUE, value |-> ~isAutoTrading]
    /\ UNCHANGED <<service, scope, engineVars, marketVars, multiVars, paperVars, botVars, scannerIsRunning,
                   intervalId, scannerTimers, scans, scanHistory>>

\* scan i resumes with the data of its symbol, trades if auto-trading is on, and
\* suspends on the next symbol; after the last one runScan records the scan
ScanStep(i) ==
    /\ service = "scanner"
    /\ i \in ScansInFlight
    /\ \E d \in ScanData :
        LET sc == scans[i]
            r == IF d.ok
                 THEN analyzeAndTrade(Ledger, isAutoTrading, Watchlist[sc.s], d.price, d.score)
                 ELSE [ledger |-> Ledger, executed |-> FALSE]
            n == sc.executed + (IF r.executed THEN 1 ELSE 0)
            last == sc.s = scope.symbols
            history == <<n>> \o scanHistory
        IN /\ SetLedger(r.ledger)
           /\ paperStorage' = IF r.executed THEN PaperSaved(r.ledger) ELSE paperStorage
           /\ scans' = [scans EXCEPT ![i] =
                          [origin |-> sc.origin, pc |-> IF last THEN "done" ELSE "fetch",
                           s |-> IF last THEN sc.s ELSE sc.s + 1,
                           signals |-> sc.signals + (IF d.ok THEN 1 ELSE 0),
                           executed |-> n]]
           /\ scanHistory' = IF last /\ sc.origin # "page"
                             THEN IF Len(history) > ScanHistoryCap
                                  THEN SubSeq(history, 1, ScanHistoryCap) ELSE history
                             ELSE scanHistory
    /\ UNCHANGED <<service, scope, engineVars, marketVars, multiVars, botVars, call, result, calls, view, isAutoTrading,
                   agentStorage, scannerIsRunning, intervalId, scannerTimers>>

\* the scanner before start()
IdleScanner ==
    /\ isAutoTrading = FALSE
    /\ agentStorage = [saved |-> FALSE, value |-> FALSE]
    /\ scannerIsRunning = FALSE
    /\ intervalId = 0
    /\ scannerTimers = {}
    /\ scans = <<>>
    /\ scanHistory = <<>>

\* the scanner after a constructor that found settings.autoScanEnabled
StartedScanner ==
    /\ isAutoTrading = TRUE
    /\ agentStorage = [saved |-> TRUE, value |-> TRUE]
    /\ scannerIsRunning = TRUE
    /\ intervalId = 1
    /\ scannerTimers = {1}
    /\ scans = <<NewScan("immediate")>>
    /\ scanHistory = <<>>

\* ------------------------------------------------------------------------
\* CryptoBot (server process)
\* ------------------------------------------------------------------------

BotInitialCapital == 1000

POSITION_SIZE == Rat(10, 100)

MIN_TRADE_USD == 10

\* executeBuy spends at most this
MaxTradeUsd == 100

CRYPTO_PAIRS == <<"BTC-USD", "ETH-USD", "BNB-USD", "XRP-USD", "SOL-USD">>

BotPrices == {50, 100}

\* the state of the constructor and of /api/bot/reset
FreshBotState ==
    [isRunning |-> FALSE, currentCash |-> Int2Rat(BotInitialCapital),
     positions |-> EmptyMap, trades |-> <<>>]

\* analyzeSymbol: null, or signals with a price
Signals == {[found |-> FALSE, price |-> 0]} \cup {[found |-> TRUE, price |-> pr] : pr \in BotPrices}

\* CryptoBot.executeBuy
botExecuteBuy(st, symbol, price) ==
    LET usdAmount == RMin(RMul(st.currentCash, POSITION_SIZE), Int2Rat(MaxTradeUsd))
        shares == RDiv(usdAmount, Int2Rat(price))
    IN [st EXCEPT !.currentCash = RSub(@, usdAmount),
                  !.positions = Put(@, symbol, [shares |-> shares, avgCost |-> price]),
                  !.trades = <<[symbol |-> symbol, action |-> "BUY", price |-> price,
                                amount |-> shares]>> \o @]

\* the entries loop from opportunity k on, up to the await of the next executeBuy
\* or to the end of runAnalysis
RECURSIVE CheckEntries(_, _, _)
CheckEntries(st, fr, k) ==
    IF k > Len(fr.opps) THEN [state |-> st, frame |-> [fr EXCEPT !.pc = "done"]]
    ELSE IF RLt(Int2Rat(MIN_TRADE_USD), st.currentCash)
            /\ fr.opps[k].symbol \notin DOMAIN st.positions
    THEN [state |-> botExecuteBuy(st, fr.opps[k].symbol, fr.opps[k].price),
          frame |-> [fr EXCEPT !.pc = "buy", !.e = k]]
    ELSE CheckEntries(st, fr, k + 1)

\* writeFileSync(STORAGE_FILE, JSON.stringify(this.state))
BotSaved(st) == [exists |-> TRUE, state |-> st]

\* the frame of a runAnalysis call suspended on the first pair's analyzeSymbol
NewBotTick(origin) == [origin |-> origin, pc |-> "scan", s |-> 1, opps |-> <<>>, e |-> 0]

BotInFlight == {i \in 1..Len(botTicks) : botTicks[i].pc # "done"}

\* the effect of a resumed runAnalysis on the state and the file
BotResume(i, res) ==
    /\ botState' = res.state
    /\ botTicks' = [botTicks EXCEPT ![i] = res.frame]
    /\ botFile' = IF res.frame.pc = "done" THEN BotSaved(res.state) ELSE botFile

\* start returns at once while state.isRunning
BotStart ==
    /\ service = "bot"
    /\ ~botState.isRunning
    /\ Len(botTicks) < scope.ticks
    /\ botState' = [botState EXCEPT !.isRunning = TRUE]
    /\ botTicks' = Append(botTicks, NewBotTick("immediate"))
    /\ botIntervalId' = NewTimerId(botTimers, botIntervalId)
    /\ botTimers' = botTimers \cup {botIntervalId'}
    /\ botFile' = BotSaved(botState')
    /\ UNCHANGED <<service, scope, engineVars, marketVars, multiVars, paperVars, scannerVars, botRestarts>>

\* stop leaves intervalId as it is
BotStop ==
    /\ service = "bot"
    /\ botTimers' = botTimers \ {botIntervalId}
    /\ botState' = [botState EXCEPT !.isRunning = FALSE]
    /\ botFile' = BotSaved(botState')
    /\ UNCHANGED <<service, scope, engineVars, marketVars, multiVars, paperVars, scannerVars, botIntervalId,
                   botTicks, botRestarts>>

\* a live interval timer fires: its callback calls runAnalysis
BotTimerFires ==
    /\ service = "bot"
    /\ botTimers # {}
    /\ Len(botTicks) < scope.ticks
    /\ botTicks' = Append(botTicks, NewBotTick("timer"))
    /\ UNCHANGED <<service, scope, engineVars, marketVars, multiVars, paperVars, scannerVars, botState,
                   botIntervalId, botTimers, botFile, botRestarts>>

\* analyzeSymbol of the current pair returns; after the last pair the entries
\* loop starts
BotScanStep(i) ==
    /\ service = "bot"
    /\ i \in BotInFlight
    /\ botTicks[i].pc = "scan"
    /\ \E sig \in Signals :
        LET fr == botTicks[i]
            opps1 == IF sig.found
                     THEN Append(fr.opps, [symbol |-> CRYPTO_PAIRS[fr.s], price |-> sig.price])
                     ELSE fr.opps
            fr1 == [fr EXCEPT !.opps = opps1]
        IN IF fr.s < scope.symbols
           THEN BotResume(i, [state |-> botState, frame |-> [fr1 EXCEPT !.s = @ + 1]])
           ELSE BotResume(i, CheckEntries(botState, fr1, 1))
    /\ UNCHANGED <<service, scope, engineVars, marketVars, multiVars, paperVars, scannerVars, botIntervalId,
                   botTimers, botRestarts>>

\* the await of executeBuy returns and the entries loop goes on
BotEntryStep(i) ==
    /\ service = "bot"
    /\ i \in BotInFlight
    /\ botTicks[i].pc = "buy"
    /\ BotResume(i, CheckEntries(botState, botTicks[i], botTicks[i].e + 1))
    /\ UNCHANGED <<service, scope, engineVars, marketVars, multiVars, paperVars, scannerVars, botIntervalId,
                   botTimers, botRestarts>>

\* POST /api/bot/reset: stop(), a fresh state, saveState()
BotReset ==
    /\ service = "bot"
    /\ botTimers' = botTimers \ {botIntervalId}
    /\ botState' = FreshBotState
    /\ botFile' = BotSaved(FreshBotState)
    /\ UNCHANGED <<service, scope, engineVars, marketVars, multiVars, paperVars, scannerVars, botIntervalId,
                   botTicks, botRestarts>>

\* the process is restarted: timers and running calls are gone, the constructor
\* runs and loadState merges the file into the fresh state
BotRestart ==
    /\ service = "bot"
    /\ botRestarts < MaxRestarts
    /\ botState' = IF botFile.exists THEN botFile.state ELSE FreshBotState
    /\ botIntervalId' = 0
    /\ botTimers' = {}
    /\ botTicks' = <<>>
    /\ botRestarts' = botRestarts + 1
    /\ UNCHANGED <<service, scope, engineVars, marketVars, multiVars, paperVars, scannerVars, botFile>>

\* the bot after its constructor found no file
IdleBot ==
    /\ botState = FreshBotState
    /\ botIntervalId = 0
    /\ botTimers = {}
    /\ botTicks = <<>>
    /\ botFile = [exists |-> FALSE, state |-> FreshBotState]
    /\ botRestarts = 0

\* ------------------------------------------------------------------------
\* ChironEngine: the regime and the two weight vectors
\* ------------------------------------------------------------------------

\* the fields of ModuleWeights, in the order normalizeWeights adds them
Slots == <<"atlas", "orion", "aether", "demeter", "phoenix", "hermes", "athena", "cronos">>

SlotSet == {Slots[k] : k \in 1..Len(Slots)}

\* a ModuleWeights literal, its slots written in hundredths
ModuleWeights(atlas, orion, aether, demeter, phoenix, hermes, athena, cronos) ==
    [atlas |-> Rat(atlas, 100), orion |-> Rat(orion, 100), aether |-> Rat(aether, 100),
     demeter |-> Rat(demeter, 100), phoenix |-> Rat(phoenix, 100),
     hermes |-> Rat(hermes, 100), athena |-> Rat(athena, 100),
     cronos |-> Rat(cronos, 100)]

Regimes == {"Trend", "Chop", "Risk-Off", "Neutral"}

\* an optional value: <<>> is undefined, <<x>> is x;  Or is the ?? operator
Or(opt, default) == IF opt = <<>> THEN default ELSE opt[1]

detectRegime(context) ==
    LET orion == Or(context.orionScore, 50)
        aether == Or(context.aetherScore, 50)
        chop == Or(context.chopIndex, 50)
    IN IF aether < 40 THEN "Risk-Off"
       ELSE IF orion >= 60 /\ chop < 45 THEN "Trend"
       ELSE IF chop > 60 THEN "Chop"
       ELSE "Neutral"

getBaseWeights(regime) ==
    CASE regime = "Trend" ->
           [core  |-> ModuleWeights(20, 25, 20, 15, 10, 5, 5, 0),
            pulse |-> ModuleWeights(10, 35, 15, 10, 20, 5, 5, 0)]
      [] regime = "Chop" ->
           [core  |-> ModuleWeights(30, 15, 25, 15, 5, 5, 5, 0),
            pulse |-> ModuleWeights(20, 20, 20, 15, 15, 5, 5, 0)]
      [] regime = "Risk-Off" ->
           [core  |-> ModuleWeights(35, 10, 30, 15, 0, 5, 5, 0),
            pulse |-> ModuleWeights(25, 15, 30, 15, 5, 5, 5, 0)]
      [] OTHER ->
           [core  |-> ModuleWeights(25, 20, 20, 15, 5, 5, 10, 0),
            pulse |-> ModuleWeights(15, 25, 20, 10, 15, 10, 5, 0)]

\* the fixed factor evaluate passes to blendWeights: 0.6
BlendFactor == Rat(6, 10)

blendWeight(baseW, learnedW, factor) ==
    [s \in SlotSet |-> RAdd(RMul(baseW[s], RSub(Int2Rat(1), factor)),
                            RMul(learnedW[s], factor))]

blendWeights(base, learned, factor) ==
    [core  |-> blendWeight(base.core, learned.coreWeights, factor),
     pulse |-> blendWeight(base.pulse, learned.pulseWeights, factor)]

\* the sum of the eight slots
SlotSum(weights) == RSum([k \in 1..Len(Slots) |-> weights[Slots[k]]])

normalizeWeights(weights) ==
    LET sum == SlotSum(weights)
    IN IF sum = Int2Rat(0) THEN weights
       ELSE [s \in SlotSet |-> RDiv(weights[s], sum)]

\* evaluate reading the dynamicConfig of the call before
evaluateStale(context, config) ==
    LET regime == detectRegime(context)
        base == getBaseWeights(regime)
        weights == IF outcome.config # <<>>
                   THEN blendWeights(base, outcome.config[1], BlendFactor)
                   ELSE base
    IN [regime |-> regime,
        blended |-> weights,
        coreWeights |-> normalizeWeights(weights.core),
        pulseWeights |-> normalizeWeights(weights.pulse)]

\* evaluate, on the dynamicConfig of the engine; `blended` keeps the vectors
\* handed to normalizeWeights
evaluate(context, config) ==
    LET regime == detectRegime(context)
        base == getBaseWeights(regime)
        weights == IF config # <<>> THEN blendWeights(base, config[1], BlendFactor)
                   ELSE base
    IN [regime |-> regime,
        blended |-> weights,
        coreWeights |-> normalizeWeights(weights.core),
        pulseWeights |-> normalizeWeights(weights.pulse)]

ZeroWeights == ModuleWeights(0, 0, 0, 0, 0, 0, 0, 0)

\* learned vectors a caller of storeLearnings supplies: all on one module, not
\* summing to 1, with a slot below zero, the opposite of a base table, all zero
OnlyOrion == ModuleWeights(0, 100, 0, 0, 0, 0, 0, 0)

Unscaled == ModuleWeights(200, 100, 100, 0, 0, 0, 0, 0)

Shorted == [ZeroWeights EXCEPT !.atlas = Rat(-2, 3)]

Opposite(weights) == [s \in SlotSet |-> RMul(Rat(-2, 3), weights[s])]

LearnedWeights ==
    {[coreWeights |-> OnlyOrion, pulseWeights |-> Unscaled],
     [coreWeights |-> ZeroWeights, pulseWeights |-> OnlyOrion],
     [coreWeights |-> Shorted, pulseWeights |-> OnlyOrion],
     [coreWeights |-> Opposite(getBaseWeights("Neutral").core), pulseWeights |-> ZeroWeights]}

\* the contexts of a direct evaluate call: one per regime, and the empty one
Contexts ==
    {[orionScore |-> <<>>, aetherScore |-> <<>>, chopIndex |-> <<>>],
     [orionScore |-> <<60>>, aetherScore |-> <<40>>, chopIndex |-> <<44>>],
     [orionScore |-> <<59>>, aetherScore |-> <<50>>, chopIndex |-> <<61>>],
     [orionScore |-> <<90>>, aetherScore |-> <<39>>, chopIndex |-> <<10>>]}

NoInputs == [scores |-> <<>>, sentiment |-> <<>>]

NoDecision ==
    [coreScore |-> 0, pulseScore |-> 0, newsScore |-> 0, compositeScore |-> 0,
     coreSignal |-> "", pulseSignal |-> "", finalSignal |-> "", confidence |-> "",
     explanation |-> <<>>, actionItems |-> <<>>, moduleScores |-> <<>>,
     core |-> Int2Rat(0), pulse |-> Int2Rat(0)]

NoOutcome ==
    [op |-> "none", context |-> [orionScore |-> <<>>, aetherScore |-> <<>>, chopIndex |-> <<>>],
     config |-> <<>>, chiron |-> <<>>, inputs |-> NoInputs, decision |-> NoDecision,
     prior |-> "none"]

\* ChironEngine.evaluate(context), called directly
ChironEvaluate(context) ==
    /\ service = "engine"
    /\ outcome' = [NoOutcome EXCEPT !.op = "evaluate", !.context = context,
                                    !.config = dynamicConfig,
                                    !.chiron = <<evaluate(context, dynamicConfig)>>]
    /\ UNCHANGED <<service, scope, multiVars, paperVars, scannerVars, botVars, marketVars,
                   moduleInputs, dynamicConfig, chironStorage, signal>>

\* storeLearnings(coreWeights, pulseWeights, notes), saveToStorage included
StoreLearnings(learned) ==
    /\ service = "engine"
    /\ dynamicConfig' = <<learned>>
    /\ chironStorage' = <<learned>>
    /\ UNCHANGED <<service, scope, multiVars, paperVars, scannerVars, botVars, marketVars, moduleInputs,
                   outcome, signal>>

ClearLearnings ==
    /\ service = "engine"
    /\ dynamicConfig' = <<>>
    /\ chironStorage' = <<>>
    /\ UNCHANGED <<service, scope, multiVars, paperVars, scannerVars, botVars, marketVars, moduleInputs,
                   outcome, signal>>

\* ------------------------------------------------------------------------
\* ArgusDecisionEngine
\* ------------------------------------------------------------------------

\* Math.round
Round(x) == RFloor(RAdd(x, Rat(1, 2)))

RMax(a, b) == IF RLe(a, b) THEN b ELSE a

\* Math.max(0, Math.min(100, 50 + news / 2))
NormalizedNews(news) ==
    RMax(Int2Rat(0), RMin(Int2Rat(100), RAdd(Int2Rat(50), Rat(news, 2))))

\* mutant: the sentiment score is rounded as it comes, not times 100
ModuleScoresUnscaled(inputs) ==
    [k \in DOMAIN inputs.scores \cup (IF inputs.sentiment # <<>> THEN {"news"} ELSE {}) |->
        IF k = "news" THEN Round(inputs.sentiment[1])
        ELSE inputs.scores[k]]

\* moduleScores: a function on the keys whose value is not undefined
ModuleScores(inputs) ==
    [k \in DOMAIN inputs.scores \cup (IF inputs.sentiment # <<>> THEN {"news"} ELSE {}) |->
        IF k = "news" THEN Round(RMul(inputs.sentiment[1], Int2Rat(100)))
        ELSE inputs.scores[k]]

ScoreOf(scores, k) == IF k \in DOMAIN scores THEN <<scores[k]>> ELSE <<>>

\* one `if (scores.x !== undefined)` block: what it adds to weightedSum and
\* to totalWeight
Term(scores, weights, k) ==
    IF k \notin DOMAIN scores THEN [sum |-> Int2Rat(0), weight |-> Int2Rat(0)]
    ELSE IF k = "news"
         THEN [sum |-> RMul(NormalizedNews(scores[k]), weights.hermes),
               weight |-> weights.hermes]
         ELSE [sum |-> RMul(Int2Rat(scores[k]), weights[k]), weight |-> weights[k]]

ScoreKeys == <<"atlas", "orion", "phoenix", "aether", "demeter", "cronos", "news">>

calculateWeightedScore(scores, weights) ==
    LET weightedSum == RSum([i \in 1..Len(ScoreKeys) |-> Term(scores, weights, ScoreKeys[i]).sum])
        totalWeight == RSum([i \in 1..Len(ScoreKeys) |-> Term(scores, weights, ScoreKeys[i]).weight])
    IN IF totalWeight = Int2Rat(0) THEN Int2Rat(50)
       ELSE RDiv(weightedSum, totalWeight)

\* score is a rational
getSignal(score) ==
    IF RLe(Int2Rat(80), score) THEN "Guclu Al"
    ELSE IF RLe(Int2Rat(65), score) THEN "Al"
    ELSE IF RLe(Int2Rat(50), score) THEN "Tut"
    ELSE IF RLe(Int2Rat(35), score) THEN "Sat"
    ELSE "Guclu Sat"

\* calculateConfidence without the count of available modules
calculateConfidenceAnyCount(coreScore, pulseScore, newsScore, scores) ==
    LET scoreDiff == RSub(coreScore, pulseScore)
        absDiff == IF scoreDiff[1] < 0 THEN RNeg(scoreDiff) ELSE scoreDiff
    IN IF RLt(absDiff, Int2Rat(15))
       THEN IF \/ RLe(Int2Rat(65), coreScore) /\ RLe(Int2Rat(65), pulseScore) /\ newsScore > 20
               \/ RLe(coreScore, Int2Rat(35)) /\ RLe(pulseScore, Int2Rat(35)) /\ newsScore < -20
            THEN "High" ELSE "Medium"
       ELSE IF RLt(absDiff, Int2Rat(30)) THEN "Medium"
       ELSE "Low"

calculateConfidence(coreScore, pulseScore, newsScore, scores) ==
    LET availableModules == Cardinality(DOMAIN scores)
        scoreDiff == RSub(coreScore, pulseScore)
        absDiff == IF scoreDiff[1] < 0 THEN RNeg(scoreDiff) ELSE scoreDiff
    IN IF availableModules < 3 THEN "Low"
       ELSE IF RLt(absDiff, Int2Rat(15))
       THEN IF \/ RLe(Int2Rat(65), coreScore) /\ RLe(Int2Rat(65), pulseScore) /\ newsScore > 20
               \/ RLe(coreScore, Int2Rat(35)) /\ RLe(pulseScore, Int2Rat(35)) /\ newsScore < -20
            THEN "High" ELSE "Medium"
       ELSE IF RLt(absDiff, Int2Rat(30)) THEN "Medium"
       ELSE "Low"

\* generateInsights: the row of the rule table, then the Chiron regime; the
\* callouts that copy fields of the inputs are left out
generateInsights(coreScore, pulseScore, newsScore, inputs, confidence, chironRegime) ==
    LET ge65(x) == RLe(Int2Rat(65), x)
        lt(x, n) == RLt(x, Int2Rat(n))
        row == IF ge65(coreScore) /\ ge65(pulseScore) THEN "aligned"
               ELSE IF ge65(coreScore) /\ lt(pulseScore, 50) THEN "value"
               ELSE IF ge65(pulseScore) /\ lt(coreScore, 50) THEN "momentum"
               ELSE IF lt(coreScore, 35) /\ lt(pulseScore, 35) THEN "avoid"
               ELSE "mixed"
        news == IF inputs.sentiment = <<>> THEN <<>>
                ELSE IF newsScore > 30 THEN <<"positive">>
                ELSE IF newsScore < -30 THEN <<"negative">>
                ELSE <<"neutral">>
    IN [explanation |-> <<row, chironRegime>>,
        actionItems |-> <<row>> \o news \o (IF confidence = "Low" THEN <<"low confidence">> ELSE <<>>)]

\* the returned decision of makeDecision, from the scores it has computed;
\* core and pulse keep the scores before Math.round
Decision(inputs, moduleScores, chiron, coreScore, pulseScore, newsScore) ==
    LET normalizedNewsScore == NormalizedNews(newsScore)
        compositeScore == Round(RAdd(RAdd(RMul(coreScore, Rat(40, 100)),
                                          RMul(pulseScore, Rat(45, 100))),
                                     RMul(normalizedNewsScore, Rat(15, 100))))
        confidence == calculateConfidence(coreScore, pulseScore, newsScore, moduleScores)
        insights == generateInsights(coreScore, pulseScore, newsScore, inputs, confidence,
                                     chiron.regime)
    IN [coreScore |-> Round(coreScore), pulseScore |-> Round(pulseScore),
        newsScore |-> newsScore, compositeScore |-> compositeScore,
        coreSignal |-> getSignal(coreScore), pulseSignal |-> getSignal(pulseScore),
        finalSignal |-> getSignal(Int2Rat(compositeScore)),
        confidence |-> confidence,
        explanation |-> insights.explanation, actionItems |-> insights.actionItems,
        moduleScores |-> moduleScores,
        core |-> coreScore, pulse |-> pulseScore]

\* makeDecision(inputs), on the dynamicConfig of the ChironEngine singleton
makeDecision(inputs, config) ==
    LET moduleScores == ModuleScores(inputs)
        chironContext == [orionScore |-> ScoreOf(moduleScores, "orion"),
                          aetherScore |-> ScoreOf(moduleScores, "aether"),
                          chopIndex |-> <<>>]
        chiron == evaluate(chironContext, config)
    IN [context |-> chironContext,
        chiron |-> chiron,
        decision |-> Decision(inputs, moduleScores, chiron,
                              calculateWeightedScore(moduleScores, chiron.coreWeights),
                              calculateWeightedScore(moduleScores, chiron.pulseWeights),
                              Or(ScoreOf(moduleScores, "news"), 0))]

\* the module results of a call: every subset of five modules reports (demeter
\* is weighed like atlas and stays absent), with the scores of one of two
\* analyses, and the news sentiment is absent, negative or mildly positive
Analyses ==
    {[atlas |-> 100, orion |-> 100, phoenix |-> 70, aether |-> 100, demeter |-> 100, cronos |-> 70],
     [atlas |-> 0, orion |-> 100, phoenix |-> 0, aether |-> 30, demeter |-> 100, cronos |-> 50]}

Sentiments == {<<>>, <<Rat(-1, 1)>>, <<Rat(51, 200)>>}

ModuleInputs ==
    {[scores |-> [k \in present |-> analysis[k]], sentiment |-> sentiment] :
        present \in SUBSET {"atlas", "orion", "phoenix", "aether", "cronos"},
        analysis \in Analyses, sentiment \in Sentiments}

\* the page calls makeDecision on the module results it holds; `prior` tells
\* whether the call before was a makeDecision on the same inputs, and under
\* the same dynamicConfig
MakeDecision ==
    /\ service = "engine"
    /\ \E made \in {makeDecision(moduleInputs, dynamicConfig)} :
         outcome' = [op |-> "makeDecision", context |-> made.context,
                     config |-> dynamicConfig, chiron |-> <<made.chiron>>,
                     inputs |-> moduleInputs, decision |-> made.decision,
                     prior |-> IF outcome.op # "makeDecision" \/ outcome.inputs # moduleInputs
                               THEN "none"
                               ELSE IF outcome.config = dynamicConfig THEN "same weights"
                               ELSE "other weights"]
    /\ UNCHANGED <<service, scope, multiVars, paperVars, scannerVars, botVars, marketVars,
                   moduleInputs, dynamicConfig, chironStorage, signal>>

\* ------------------------------------------------------------------------
\* The signal modules: OrionAnalysisService, PhoenixEngine, AtlasEngine
\* ------------------------------------------------------------------------

\* Math.min(100, Math.max(0, x))
Clamp(x) == IF x < 0 THEN 0 ELSE IF x > 100 THEN 100 ELSE x

\* the lengths of a candle window handed to a module
CandleCounts == {0, 49, 50, 59, 60, 200}

\* what Orion computes from a window of 50 candles or more: the points of its
\* three components before the clamp
OrionIndicators ==
    [trend : {-5, 8, 35}, momentum : {-5, 15, 35}, structure : {10, 30}]

\* calculateOrionScore(candles): the score of the result
calculateOrionScore(candles) ==
    IF candles.length < 50 THEN 50
    ELSE Clamp(candles.indicators.trend + candles.indicators.momentum
               + candles.indicators.structure)

\* what Phoenix reads off a window of 60 candles or more
PhoenixIndicators ==
    [isUptrend : BOOLEAN, isPullback : BOOLEAN, touchLowerBand : BOOLEAN,
     downtrend : BOOLEAN, highVolatility : BOOLEAN]

\* PhoenixEngine.insufficientData(): the score of the result
insufficientData == 0

\* PhoenixEngine.analyze(candles): the score of the result; the RSI, the
\* divergence, the slope bonus and the volume spike are taken as not firing
PhoenixAnalyze(candles) ==
    IF candles.length < 60 THEN insufficientData
    ELSE LET i == candles.indicators
             mode == IF i.isUptrend
                     THEN 10 + (IF i.isPullback THEN 15 ELSE 0)
                     ELSE (IF i.touchLowerBand THEN 15 ELSE 0)
             penalties == (IF i.downtrend THEN 15 ELSE 0)
                          + (IF i.highVolatility THEN 10 ELSE 0)
         IN Clamp(50 + mode - penalties)

\* the optional fields of Fundamentals
FundamentalFields ==
    {"profitMargin", "roe", "debtToEquity", "currentRatio", "peRatio", "pbRatio",
     "dividendYield"}

\* the values a field takes when the provider reports it
FundamentalValues ==
    [profitMargin |-> {Int2Rat(30), Int2Rat(5)},
     roe |-> {Int2Rat(30)},
     debtToEquity |-> {Rat(1, 5), Int2Rat(3)},
     currentRatio |-> {Int2Rat(3), Rat(1, 2)},
     peRatio |-> {Int2Rat(50)},
     pbRatio |-> {Int2Rat(1)},
     dividendYield |-> {Int2Rat(4)}]

\* fundamentals.field || default: undefined and 0 give the default
OrElse(fundamentals, field, default) ==
    IF fundamentals[field] = <<>> \/ fundamentals[field] = <<Int2Rat(0)>>
    THEN default ELSE fundamentals[field][1]

\* x > n and x < n on a rational x and the decimal n = a / b
Above(x, a, b) == RLt(Rat(a, b), x)

Below(x, a, b) == RLt(x, Rat(a, b))

\* AtlasEngine.analyze(fundamentals): the score of the result
AtlasAnalyze(fundamentals) ==
    LET pm == OrElse(fundamentals, "profitMargin", Int2Rat(0))
        roe == OrElse(fundamentals, "roe", Int2Rat(0))
        de == OrElse(fundamentals, "debtToEquity", Int2Rat(0))
        cr == OrElse(fundamentals, "currentRatio", Int2Rat(1))
        pe == OrElse(fundamentals, "peRatio", Int2Rat(0))
        pb == OrElse(fundamentals, "pbRatio", Int2Rat(0))
        dy == OrElse(fundamentals, "dividendYield", Int2Rat(0))
        profitability ==
            (IF Above(pm, 25, 1) THEN 15 ELSE IF Above(pm, 15, 1) THEN 10
             ELSE IF Above(pm, 8, 1) THEN 5 ELSE IF Above(pm, 0, 1) THEN 2 ELSE 0)
            + (IF Above(roe, 25, 1) THEN 20 ELSE IF Above(roe, 15, 1) THEN 15
               ELSE IF Above(roe, 10, 1) THEN 10 ELSE IF Above(roe, 5, 1) THEN 5 ELSE 0)
        health ==
            (IF Below(de, 3, 10) THEN 15 ELSE IF Below(de, 7, 10) THEN 12
             ELSE IF Below(de, 15, 10) THEN 8 ELSE IF Above(de, 25, 10) THEN -5 ELSE 0)
            + (IF Above(cr, 25, 10) THEN 15 ELSE IF Above(cr, 15, 10) THEN 12
               ELSE IF Above(cr, 1, 1) THEN 8 ELSE -5)
        valuation ==
            (IF Above(pe, 0, 1) /\ Below(pe, 15, 1) THEN 18
             ELSE IF Above(pe, 0, 1) /\ Below(pe, 25, 1) THEN 12
             ELSE IF Above(pe, 0, 1) /\ Below(pe, 40, 1) THEN 6
             ELSE IF ~Below(pe, 40, 1) THEN -3 ELSE 0)
            + (IF Above(pb, 0, 1) /\ Below(pb, 15, 10) THEN 12
               ELSE IF Above(pb, 0, 1) /\ Below(pb, 3, 1) THEN 8
               ELSE IF Above(pb, 0, 1) /\ Below(pb, 6, 1) THEN 4 ELSE 0)
            + (IF Above(dy, 3, 1) THEN 5 ELSE 0)
    IN Clamp(profitability + health + valuation)

\* the Fundamentals a provider hands over: each field reported or left out
Reported(field) == {<<>>} \cup {<<v>> : v \in FundamentalValues[field]}

Fundamentals ==
    [profitMargin : Reported("profitMargin"), roe : Reported("roe"),
     debtToEquity : Reported("debtToEquity"), currentRatio : Reported("currentRatio"),
     peRatio : Reported("peRatio"), pbRatio : Reported("pbRatio"),
     dividendYield : Reported("dividendYield")]

NoFundamentals == [k \in FundamentalFields |-> <<>>]

NoCandles == [length |-> 0]

NoSignal == [module |-> "none", candles |-> NoCandles, fundamentals |-> NoFundamentals, score |-> 0]

SignalUnchanged ==
    UNCHANGED <<service, scope, multiVars, paperVars, scannerVars, botVars, marketVars,
                moduleInputs, dynamicConfig, chironStorage, outcome>>

\* the page scores a window with Orion
OrionScore(candles) ==
    /\ service = "modules"
    /\ signal' = [NoSignal EXCEPT !.module = "orion", !.candles = candles,
                                  !.score = calculateOrionScore(candles)]
    /\ SignalUnchanged

\* the page scores a window with Phoenix
PhoenixScore(candles) ==
    /\ service = "modules"
    /\ signal' = [NoSignal EXCEPT !.module = "phoenix", !.candles = candles,
                                  !.score = PhoenixAnalyze(candles)]
    /\ SignalUnchanged

\* the page scores the fundamentals with Atlas
AtlasScore(fundamentals) ==
    /\ service = "modules"
    /\ signal' = [NoSignal EXCEPT !.module = "atlas", !.fundamentals = fundamentals,
                                  !.score = AtlasAnalyze(fundamentals)]
    /\ SignalUnchanged

\* a window of n candles, with what the module computes from it when it is long
\* enough
Windows(indicators) ==
    {[length |-> n, indicators |-> i] : n \in CandleCounts, i \in indicators}

IdleEngine ==
    /\ moduleInputs = NoInputs
    /\ dynamicConfig = <<>>
    /\ chironStorage = <<>>
    /\ outcome = NoOutcome
    /\ signal = NoSignal

\* ------------------------------------------------------------------------
\* Specifications
\* ------------------------------------------------------------------------

NextPaper ==
    \/ \E symbol \in PaperSymbols, price \in PaperPrices : PaperBuy(symbol, price)
    \/ \E symbol \in PaperSymbols, price \in PaperSellPrices, sellAll \in BOOLEAN :
          PaperSell(symbol, price, sellAll)
    \/ PaperReset
    \/ \E symbol \in PaperSymbols, price \in PaperSellPrices : PaperGetPortfolio(symbol, price)
    \/ \E symbol \in PaperSymbols : PaperGetPosition(symbol)
    \/ PaperGetTrades
    \/ \E count \in RecentCounts : PaperGetRecentTrades(count)
    \/ \E symbol \in PaperSymbols, price \in PaperSellPrices : PaperShouldStopLoss(symbol, price)

\* the paper ledger of a new session, or the one loaded from a session of
\* PriorBuys straight buys
InitPaper ==
    /\ service = "paper"
    /\ scope = [symbols |-> 0, ticks |-> 0, personalities |-> NumPersonalities, resets |-> 0, calls |-> MaxCalls]
    /\ \E l \in {InitialLedger, AfterBuys(PriorBuys, "AAPL", 100)} :
          /\ cash = l.cash
          /\ positions = l.positions
          /\ trades = l.trades
          /\ startingCapital = l.startingCapital
          /\ paperStorage = IF l = InitialLedger THEN NoItem ELSE PaperSaved(l)
    /\ call = NoCall
    /\ result = "none"
    /\ calls = 0
    /\ view = NoView
    /\ IdleMulti
    /\ IdleScanner
    /\ IdleBot
    /\ IdleEngine

SpecPaper == InitPaper /\ [][NextPaper]_vars

NextScanner ==
    \/ ScannerStart
    \/ ScannerStop
    \/ ScannerRestart
    \/ ScannerTimerFires
    \/ PageScan
    \/ ToggleAutoTrading
    \/ \E i \in 1..Len(scans) : ScanStep(i)
    \/ PaperReset

InitScanner ==
    /\ service = "scanner"
    /\ scope = [symbols |-> NumSymbols, ticks |-> MaxTicks,
                personalities |-> NumPersonalities, resets |-> 0, calls |-> 1]
    /\ IdlePaper
    /\ IdleScanner \/ StartedScanner
    /\ IdleMulti
    /\ IdleBot
    /\ IdleEngine

SpecScanner == InitScanner /\ [][NextScanner]_vars

NextBot ==
    \/ BotStart
    \/ BotStop
    \/ BotTimerFires
    \/ \E i \in 1..Len(botTicks) : BotScanStep(i)
    \/ \E i \in 1..Len(botTicks) : BotEntryStep(i)
    \/ BotReset
    \/ BotRestart

InitBot ==
    /\ service = "bot"
    /\ scope = [symbols |-> NumSymbols, ticks |-> MaxTicks,
                personalities |-> NumPersonalities, resets |-> 0, calls |-> 0]
    /\ IdleBot
    /\ IdleEngine
    /\ IdleMulti
    /\ IdlePaper
    /\ IdleScanner

SpecBot == InitBot /\ [][NextBot]_vars

NextMulti ==
    \/ StartAutonomous
    \/ StopAutonomous
    \/ TimerFires
    \/ ManualRunAnalysis
    \/ \E i \in 1..Len(ticks) : TickStep(i)
    \/ \E p \in PersonalitySet : ResetTrader(p)
    \/ ResetAll

InitMultiScope(sc) ==
    /\ service = "multi"
    /\ scope = sc
    /\ IdleMulti
    /\ IdlePaper
    /\ IdleScanner
    /\ IdleBot
    /\ IdleEngine

\* two ticks that may overlap, over a few symbols
InitMulti ==
    InitMultiScope([symbols |-> NumSymbols, ticks |-> MaxTicks,
                    personalities |-> NumPersonalities, resets |-> MaxResets, calls |-> 0])

\* one tick over enough symbols to reach maxPositions
InitMultiDeep ==
    InitMultiScope([symbols |-> DeepSymbols, ticks |-> 1,
                    personalities |-> NumPersonalities, resets |-> 0, calls |-> 0])

SpecMulti == InitMulti /\ [][NextMulti]_vars

\* both kinds of run
SpecMultiAll == (InitMulti \/ InitMultiDeep) /\ [][NextMulti]_vars

NextEngine ==
    \/ \E context \in Contexts : ChironEvaluate(context)
    \/ \E learned \in LearnedWeights : StoreLearnings(learned)
    \/ ClearLearnings
    \/ MakeDecision

\* what the fetches of a standing market deliver
Markets == [MarketSymbols -> Data]

NextRerun ==
    \/ \E quotes \in Markets : MarketMoves(quotes)
    \/ RunTick

InitRerun ==
    /\ service = "rerun"
    /\ scope = [symbols |-> NumSymbols, ticks |-> MaxTicks,
                personalities |-> NumPersonalities, resets |-> 0, calls |-> MaxTicks]
    /\ IdleMulti
    /\ IdlePaper
    /\ IdleScanner
    /\ IdleBot
    /\ IdleEngine

\* ticks run one after the other, the market moving between some of them
SpecRerun == InitRerun /\ [][NextRerun]_vars

NextModules ==
    \/ \E candles \in Windows(OrionIndicators) : OrionScore(candles)
    \/ \E candles \in Windows(PhoenixIndicators) : PhoenixScore(candles)
    \/ \E fundamentals \in Fundamentals : AtlasScore(fundamentals)

InitModules ==
    /\ service = "modules"
    /\ scope = [symbols |-> 0, ticks |-> 0, personalities |-> NumPersonalities, resets |-> 0, calls |-> 0]
    /\ IdleEngine
    /\ IdleMulti
    /\ IdlePaper
    /\ IdleScanner
    /\ IdleBot

\* the three signal modules, called on windows and fundamentals of every kind
SpecModules == InitModules /\ [][NextModules]_vars

InitEngine ==
    /\ service = "engine"
    /\ scope = [symbols |-> 0, ticks |-> 0, personalities |-> NumPersonalities, resets |-> 0, calls |-> 0]
    /\ moduleInputs \in ModuleInputs
    /\ dynamicConfig = <<>>
    /\ chironStorage = <<>>
    /\ outcome = NoOutcome
    /\ signal = NoSignal
    /\ IdleMulti
    /\ IdlePaper
    /\ IdleScanner
    /\ IdleBot

SpecEngine == InitEngine /\ [][NextEngine]_vars

\* the stored values a page load may find: nothing, what saveState wrote in
\* an earlier session, a text that does not parse, an object without its
\* trades list
StoredLedgers ==
    {NoItem,
     PaperSaved(AfterBuys(PriorBuys, "AAPL", 100)),
     Garbage,
     Without(PaperSaved(AfterBuys(PriorBuys, "AAPL", 100)), {"trades"})}

\* the paper broker constructed on one of the stored values
InitPaperLoad ==
    /\ service = "paper"
    /\ scope = [symbols |-> 0, ticks |-> 0, personalities |-> NumPersonalities, resets |-> 0, calls |-> MaxCalls]
    /\ paperStorage \in StoredLedgers
    /\ LET r == loadState(paperStorage, InitialLedger)
       IN /\ cash = r.ledger.cash
          /\ positions = r.ledger.positions
          /\ trades = r.ledger.trades
          /\ startingCapital = r.ledger.startingCapital
          /\ result = r.result
    /\ call = [op |-> "load", symbol |-> "", price |-> 0, sellAll |-> FALSE]
    /\ calls = 0
    /\ view = NoView
    /\ IdleMulti
    /\ IdleScanner
    /\ IdleBot
    /\ IdleEngine

\* the trader pool over one symbol, with page loads
InitMultiLoad ==
    InitMultiScope([symbols |-> 1, ticks |-> MaxTicks, personalities |-> NumPersonalities,
                    resets |-> MaxResets, calls |-> 0])

\* two ticks over the first symbol of two personalities
InitMultiWide ==
    InitMultiScope([symbols |-> 1, ticks |-> MaxTicks, personalities |-> WidePersonalities,
                    resets |-> 0, calls |-> 0])

\* the ticks of the trader pool and the scans of the scanner
SpecTicks == (InitMulti \/ InitMultiWide \/ InitScanner) /\ [][NextMulti \/ NextScanner]_vars

NextLoad ==
    \/ NextPaper
    \/ PaperReload
    \/ NextMulti
    \/ MultiReload

\* the two ledgers across page loads
SpecLoad == (InitPaperLoad \/ InitMultiLoad) /\ [][NextLoad]_vars

Init == InitMulti \/ InitPaper \/ InitScanner \/ InitBot

Next == NextMulti \/ NextPaper \/ NextScanner \/ NextBot

\* the four trading services, each behaviour exercising one of them
Spec == Init /\ [][Next]_vars

\* ------------------------------------------------------------------------
\* Claims
\* ------------------------------------------------------------------------

\* C1: a tick for a personality never starts while a prior tick for that same
\* personality is still in flight: no two running ticks are inside the same
\* personality's analyzeAndTrade.
C1_TicksNonReentrant ==
    \A i, j \in InFlight : i # j => ticks[i].p # ticks[j].p

\* the P&L% a Sell trade realized: pnl over the cost basis (amount - pnl)
RealizedPercent(trade) ==
    RMul(RDiv(trade.pnl, RSub(trade.amount, trade.pnl)), Int2Rat(100))

\* minus the stop-loss percentage of the trader's personality
StopLevel(trader) == RNeg(RMul(THRESHOLDS[trader.id].stopLoss, Int2Rat(100)))

\* C4: a held position whose refreshed P&L% is at or below minus the stop-loss
\* percentage is closed in the tick that refreshed it (no position is left held
\* at such a price), and the trade that closed it carries the stop-loss reason,
\* whatever the composite score was.
C4_StopLossFirst ==
    \A id \in DOMAIN heap :
        LET trader == heap[id]
        IN /\ \A sym \in DOMAIN trader.positions :
                ~RLe(PnlPercent(trader.positions[sym].currentPrice,
                                trader.positions[sym].avgCost),
                     StopLevel(trader))
           /\ \A k \in 1..Len(trader.trades) :
                (/\ trader.trades[k].action = "SELL"
                 /\ RLe(RealizedPercent(trader.trades[k]), StopLevel(trader)))
                => trader.trades[k].reason = "STOP-LOSS"

\* C4 witness: the latest step closed a position at exactly -6% (bought at 100,
\* quoted 94) as a stop-loss although the score was also below sellScore
C4_Witness ==
    \E id \in DOMAIN heap :
        LET trader == heap[id]
        IN /\ trader.id = "aggressive"
           /\ Len(trader.trades) > 0
           /\ trader.trades[1].action = "SELL"
           /\ trader.trades[1].reason = "STOP-LOSS"
           /\ trader.trades[1].price = 94
           /\ RealizedPercent(trader.trades[1]) = <<-6, 1>>
           /\ delivered.ok /\ delivered.price = 94
           /\ delivered.score < THRESHOLDS["aggressive"].sellScore

\* C5: a tick records at most one trade per symbol of a personality, so it never
\* buys a symbol it sold in the same tick.
C5_OneTradePerSymbol ==
    \A i \in 1..Len(ticks) :
        \A a, b \in 1..Len(ticks[i].executed) :
            (/\ ticks[i].executed[a].personality = ticks[i].executed[b].personality
             /\ ticks[i].executed[a].symbol = ticks[i].executed[b].symbol)
            => a = b

\* C5 witness: the latest step of a tick sold a symbol while the score it got
\* met the entry rule (score >= buyScore, a free slot, enough cash), and the
\* symbol is not held afterwards
C5_Witness ==
    \E i \in 1..Len(ticks) :
        /\ Len(ticks[i].executed) > 0
        /\ LET e == ticks[i].executed[Len(ticks[i].executed)]
           IN /\ e.action = "SELL"
              /\ delivered.ok
              /\ delivered.score >= THRESHOLDS[e.personality].buyScore
              /\ \E id \in DOMAIN heap :
                    /\ heap[id].id = e.personality
                    /\ Len(heap[id].trades) > 0
                    /\ heap[id].trades[1].action = "SELL"
                    /\ heap[id].trades[1].symbol = e.symbol
                    /\ heap[id].trades[1].price = delivered.price
                    /\ e.symbol \notin DOMAIN heap[id].positions
                    /\ RLe(<<40, 1>>, heap[id].currentCash)

RECURSIVE Amounts(_, _, _)
Amounts(ts, action, field) ==
    IF ts = <<>> THEN <<>>
    ELSE (IF Head(ts).action = action THEN <<Head(ts)[field]>> ELSE <<>>)
         \o Amounts(Tail(ts), action, field)

RECURSIVE IntSum(_)
IntSum(s) == IF s = <<>> THEN 0 ELSE Head(s) + IntSum(Tail(s))

\* C2: on the paper ledger and on every trader object, cash equals the starting
\* capital minus the amounts of the Buy trades plus the amounts of the Sell
\* trades of the history, and cash is never negative.
C2_CashIdentity ==
    /\ cash = Int2Rat(startingCapital - IntSum(Amounts(trades, "BUY", "total"))
                                      + IntSum(Amounts(trades, "SELL", "total")))
    /\ RLe(Int2Rat(0), cash)
    /\ \A id \in DOMAIN heap :
          /\ heap[id].currentCash =
                RAdd(RSub(Int2Rat(MultiInitialCapital),
                          RSum(Amounts(heap[id].trades, "BUY", "amount"))),
                     RSum(Amounts(heap[id].trades, "SELL", "amount")))
          /\ RLe(Int2Rat(0), heap[id].currentCash)

\* the paper ledger has bought and sold, and a second buy sized from what was left
C2_Witness ==
    /\ service = "paper"
    /\ Len(Amounts(trades, "SELL", "total")) >= 1
    /\ Len(Amounts(trades, "BUY", "total")) >= 2
    /\ cash # Int2Rat(startingCapital)

\* C3: every symbol of the paper ledger's position map has shares > 0.
C3_SharesPositive ==
    \A symbol \in DOMAIN positions : positions[symbol].shares > 0

\* C7: at most one periodic timer drives ticks at any time, for the trader pool
\* and for the scanner.
C7_AtMostOneTimer ==
    /\ multiTimers <= 1
    /\ Cardinality(scannerTimers) <= 1

\* the ledgers the three schedulers trade on
MultiLedger == [p \in DOMAIN traders |-> heap[traders[p]]]

BotLedger ==
    [currentCash |-> botState.currentCash, positions |-> botState.positions,
     trades |-> botState.trades]

\* the origin of the call a step started, "none" if it started none
Started(before, after) ==
    IF Len(after) > Len(before) THEN after[Len(after)].origin ELSE "none"

\* C8: while a scheduler is stopped no step starts a timer-driven tick, and
\* once no tick is in flight its ledger changes only by a reset.
C8_StoppedStaysStopped ==
    [][/\ ~multiIsRunning =>
            /\ Started(ticks, ticks') # "timer"
            /\ (InFlight = {} /\ MultiLedger' # MultiLedger) => multiResets' # multiResets
       /\ ~scannerIsRunning =>
            /\ Started(scans, scans') # "timer"
            /\ (ScansInFlight = {} /\ Ledger' # Ledger) => calls' # calls
       /\ ~botState.isRunning =>
            /\ Started(botTicks, botTicks') # "timer"
            /\ (BotInFlight = {} /\ BotLedger' # BotLedger) =>
                   BotLedger' = [currentCash |-> FreshBotState.currentCash,
                                 positions |-> EmptyMap, trades |-> <<>>]
      ]_vars

\* the trader pool was stopped with its timer live, and the tick the timer had
\* started ran to completion and traded
C8_Witness ==
    /\ service = "multi"
    /\ ~multiIsRunning
    /\ multiTimers > 0
    /\ InFlight = {}
    /\ \E i \in 1..Len(ticks) : ticks[i].origin = "timer" /\ Len(ticks[i].executed) > 0

\* the call of the step, when the step is a call on the paper ledger
PaperCalled == calls' = calls + 1

\* C9: a sell of a symbol without a position, and a buy whose investment is
\* under 100 or whose share count is under 1, return null and leave cash, the
\* position map and the trade history as they were.
C9_RejectedIsNoOp ==
    [][PaperCalled =>
        LET investment == RMin(RMul(getTotalValue(Ledger, call'.symbol, call'.price),
                                    Rat(20, 100)),
                               RMul(cash, Rat(9, 10)))
            rejected ==
                \/ call'.op = "sell" /\ call'.symbol \notin DOMAIN positions
                \/ call'.op = "buy" /\ RLt(investment, Int2Rat(100))
                \/ call'.op = "buy" /\ RFloor(RDiv(investment, Int2Rat(call'.price))) < 1
        IN rejected => /\ result' = "null"
                       /\ cash' = cash
                       /\ positions' = positions
                       /\ trades' = trades
      ]_vars

\* a buy at a price the cash would cover was refused for its investment of 90
C9_Witness ==
    /\ call.op = "buy"
    /\ call.price = 45
    /\ result = "null"
    /\ cash = Int2Rat(100)
    /\ trades # <<>>

\* the Sell trade a step put at the head of a history, if it put one
SoldBy(before, after) ==
    IF Len(after) = Len(before) + 1 /\ after[1].action = "SELL" THEN <<after[1]>> ELSE <<>>

\* C10: a successful sell credits cash with shares sold * price, shrinks or
\* removes the position, and appends a Sell trade carrying the realized P&L
\* (sell price - average cost) * shares sold, on the paper ledger and on every
\* trader object.
C10_SellEffects ==
    [][/\ \A t \in Range(SoldBy(trades, trades')) :
            LET before == positions[t.symbol]
            IN /\ cash' = RAdd(cash, Int2Rat(t.shares * t.price))
               /\ \/ t.symbol \notin DOMAIN positions'
                  \/ positions'[t.symbol].shares = before.shares - t.shares
               /\ "pnl" \in DOMAIN t
               /\ t.pnl = RMul(RSub(Int2Rat(t.price), before.avgCost), Int2Rat(t.shares))
       /\ \A id \in DOMAIN heap \cap DOMAIN heap' :
            \A t \in Range(SoldBy(heap[id].trades, heap'[id].trades)) :
                LET before == heap[id].positions[t.symbol]
                IN /\ heap'[id].currentCash =
                          RAdd(heap[id].currentCash, RMul(t.shares, Int2Rat(t.price)))
                   /\ t.symbol \notin DOMAIN heap'[id].positions
                   /\ "pnl" \in DOMAIN t
                   /\ t.pnl = RMul(Int2Rat(t.price - before.avgCost), t.shares)
      ]_vars

\* the cost basis of a position: shares * avgCost
CostBasis(position) == RMul(Int2Rat(position.shares), position.avgCost)

\* a lies between b and c, ends included
RBetween(a, b, c) == (RLe(b, a) /\ RLe(a, c)) \/ (RLe(c, a) /\ RLe(a, b))

\* C11: a buy that adds newShares at price to a held position leaves the
\* average cost (oldShares * oldAvgCost + newShares * price) / (oldShares +
\* newShares): the cost basis grows by what was paid, and the new average lies
\* between the old average and the price; 10 @ 100 then 10 @ 120 gives 110.
C11_AverageCostBlend ==
    [][(PaperCalled /\ call'.op = "buy" /\ result' = "trade"
            /\ call'.symbol \in DOMAIN positions) =>
        LET old == positions[call'.symbol]
            new == positions'[call'.symbol]
            newShares == trades'[1].shares
            price == Int2Rat(call'.price)
        IN /\ new.shares = old.shares + newShares
           /\ new.avgCost = RDiv(RAdd(RMul(Int2Rat(old.shares), old.avgCost),
                                      RMul(Int2Rat(newShares), price)),
                                 Int2Rat(old.shares + newShares))
           /\ CostBasis(new) = RAdd(CostBasis(old), Int2Rat(newShares * call'.price))
           /\ RBetween(new.avgCost, old.avgCost, price)
           /\ BlendPosition([positions |-> [AAPL |-> [shares |-> 10, avgCost |-> <<100, 1>>]]],
                            "AAPL", 10, 120, 1200) = [shares |-> 20, avgCost |-> <<110, 1>>]
      ]_vars

\* a position bought at 45 was added to at 100: its average is strictly between
C11_Witness ==
    /\ call.op = "buy" /\ call.price = 100 /\ result = "trade"
    /\ Len(trades) >= 2
    /\ trades[2].action = "BUY" /\ trades[2].symbol = call.symbol /\ trades[2].price = 45
    /\ RLt(Int2Rat(45), positions[call.symbol].avgCost)
    /\ RLt(positions[call.symbol].avgCost, Int2Rat(100))

\* the step sells the whole position of the symbol that the call before it bought
SellsAfterBuy ==
    /\ call.op = "buy" /\ result = "trade"
    /\ PaperCalled /\ call'.op = "sell" /\ call'.sellAll /\ result' = "trade"
    /\ call'.symbol = call.symbol

\* cash ends at the cash before the buy plus bought shares * (sell price - buy
\* price), and the symbol has no position
RoundTripHolds ==
    /\ cash' = RAdd(RAdd(cash, Int2Rat(trades[1].total)),
                    Int2Rat(trades[1].shares * (call'.price - call.price)))
    /\ call'.symbol \notin DOMAIN positions'

\* C12 as stated: every buy of a symbol followed by a sell of the whole
\* position leaves cash at the cash before the buy plus shares * (sell price -
\* buy price), and no position of the symbol.
C12_RoundTripAnyBuy == [][SellsAfterBuy => RoundTripHolds]_vars

\* C12 amended: a buy of a symbol of which no shares were held, followed by a
\* sell of the whole position, leaves cash at the cash before the buy plus
\* shares * (sell price - buy price), and no position of the symbol.
C12_RoundTrip ==
    [][(SellsAfterBuy /\ positions[call.symbol].shares = trades[1].shares)
          => RoundTripHolds]_vars

\* bought at 45 with nothing held, then sold whole at 100
C12_Witness ==
    /\ call.op = "sell" /\ call.sellAll /\ call.price = 100 /\ result = "trade"
    /\ Len(trades) = 2
    /\ trades[2].action = "BUY" /\ trades[2].symbol = call.symbol /\ trades[2].price = 45
    /\ cash = Int2Rat(INITIAL_CAPITAL + trades[2].shares * 55)
    /\ positions = EmptyMap

\* C13: getPortfolio, getPosition, getTrades, getRecentTrades and shouldStopLoss
\* leave cash, the position map, the trade history and startingCapital as they
\* were; only buy, sell and reset change the ledger.
C13_AccessorsPure ==
    [][(PaperCalled /\ Ledger' # Ledger) => call'.op \in {"buy", "sell", "reset"}]_vars

\* the recent trades of a ledger with more trades than asked for were read
C13_Witness ==
    /\ view.op = "getRecentTrades"
    /\ call.op = "getRecentTrades"
    /\ Len(view.value) = 1
    /\ Len(trades) > 1
    /\ positions # EmptyMap

\* the vectors evaluate handed to normalizeWeights and what it returned for
\* them, in the latest call
Normalized ==
    IF outcome.chiron = <<>> THEN {}
    ELSE {[given |-> outcome.chiron[1].blended.core, returned |-> outcome.chiron[1].coreWeights],
          [given |-> outcome.chiron[1].blended.pulse, returned |-> outcome.chiron[1].pulseWeights]}

\* C14: for every regime and every stored learned weight vector (or
\* none), the core and the pulse vector evaluate returns each sum to 1 over
\* the 8 slots, and a vector whose slots are all zero is returned unchanged.
C14_SumToOneUnlessAllZero ==
    \A n \in Normalized :
        IF n.given = ZeroWeights THEN n.returned = n.given
        ELSE SlotSum(n.returned) = Int2Rat(1)

\* C15: for every subset of present modules with scores in [0,100], every
\* news sentiment, every regime and every stored learned weight vector, the
\* compositeScore of the decision makeDecision returns lies in [0,100], and
\* so do coreScore and pulseScore.
C15_ScoresInRange ==
    outcome.op = "makeDecision" =>
        /\ outcome.decision.compositeScore \in 0..100
        /\ outcome.decision.coreScore \in 0..100
        /\ outcome.decision.pulseScore \in 0..100

RAbs(x) == IF x[1] < 0 THEN RNeg(x) ELSE x

\* the modules that report a score in the latest decision, the news included
Reporting == Cardinality(DOMAIN outcome.decision.moduleScores)

\* core and pulse agree on a strong buy with positive news, or on a strong
\* sell with negative news
Aligned ==
    LET d == outcome.decision
    IN \/ RLe(Int2Rat(65), d.core) /\ RLe(Int2Rat(65), d.pulse) /\ d.newsScore > 20
       \/ RLe(d.core, Int2Rat(35)) /\ RLe(d.pulse, Int2Rat(35)) /\ d.newsScore < -20

Repeated ==
    /\ outcome.op = "makeDecision"
    /\ outcome'.op = "makeDecision"
    /\ outcome'.prior # "none"
    /\ outcome'.inputs = outcome.inputs

PaperSavedThenLoaded == PaperReload /\ paperStorage = PaperSaved(Ledger)

MultiSavedThenLoaded == MultiReload /\ multiStorage = Snapshot(heap, traders)

\* C18: saving a ledger and loading it back reproduces an identical snapshot:
\* the same cash, position map, startingCapital and trades in the same order
\* with every trade field equal, for PaperBrokerService and for each
\* MultiAIBrokerService trader.
C18_RoundTrip ==
    [][/\ PaperSavedThenLoaded => Ledger' = Ledger
       /\ MultiSavedThenLoaded =>
             \A p \in PersonalitySet : heap'[traders'[p]] = heap[traders[p]]
      ]_vars

\* C19: a load of persisted ledger state that fails (unparsable or incomplete
\* stored value) leaves the ledger in its initial state: cash =
\* startingCapital = initial capital, no positions and no trades.
C19_FailedLoadIsInitial ==
    (call.op = "load" /\ result = "failed") => Ledger = InitialLedger

\* tick i of the trader pool resumes on a symbol whose retrieval or scoring
\* threw
MultiThrew(i) ==
    /\ service = "multi"
    /\ i \in InFlight
    /\ Len(ticks') = Len(ticks)
    /\ ticks'[i] # ticks[i]
    /\ delivered' = NoData

\* scan i of the scanner resumes on a symbol whose analyzeAndTrade threw: no
\* signal is pushed
ScanThrew(i) ==
    /\ service = "scanner"
    /\ i \in ScansInFlight
    /\ Len(scans') = Len(scans)
    /\ scans'[i] # scans[i]
    /\ scans'[i].signals = scans[i].signals

\* C20: if data retrieval or scoring for one symbol throws during a tick, the
\* tick still evaluates every remaining symbol of that personality and every
\* remaining personality, the failing symbol causes no cash or position
\* change, and later ticks keep being scheduled (the timers stay live).
C20_FailureIsolated ==
    [][/\ \A i \in 1..Len(ticks) : MultiThrew(i) =>
             /\ \A id \in DOMAIN heap' : id \in DOMAIN heap /\ heap'[id] = heap[id]
             /\ IF ticks[i].s < scope.symbols
                THEN /\ ticks'[i].pc = "fetch"
                     /\ ticks'[i].p = ticks[i].p
                     /\ ticks'[i].s = ticks[i].s + 1
                ELSE IF ticks[i].p < scope.personalities
                THEN /\ ticks'[i].pc = "fetch"
                     /\ ticks'[i].p = ticks[i].p + 1
                     /\ ticks'[i].s = 1
                ELSE ticks'[i].pc = "done"
             /\ multiIsRunning' = multiIsRunning
             /\ multiTimers' = multiTimers
       /\ \A i \in 1..Len(scans) : ScanThrew(i) =>
             /\ Ledger' = Ledger
             /\ IF scans[i].s < scope.symbols
                THEN scans'[i].pc = "fetch" /\ scans'[i].s = scans[i].s + 1
                ELSE scans'[i].pc = "done"
             /\ scannerTimers' = scannerTimers
             /\ scannerIsRunning' = scannerIsRunning
      ]_vars

\* the only symbol of the first personality threw: the tick waits on the
\* symbol of the second personality, no trader has traded, and the timer that
\* started the tick is live
C20_Witness ==
    /\ service = "multi"
    /\ scope.personalities = WidePersonalities
    /\ delivered = NoData
    /\ multiIsRunning
    /\ multiTimers > 0
    /\ \E i \in InFlight : ticks[i].p = 2 /\ ticks[i].s = 1
    /\ \A p \in PersonalitySet : heap[traders[p]] = NewTrader(p)

\* the latest signal module call had missing or insufficient input: an Orion
\* window under 50 candles, a Phoenix window under 60 candles, or fundamentals
\* with every optional field absent
InsufficientInput ==
    \/ signal.module = "orion" /\ signal.candles.length < 50
    \/ signal.module = "phoenix" /\ signal.candles.length < 60
    \/ signal.module = "atlas" /\ signal.fundamentals = NoFundamentals

\* C21: a signal module whose input is missing or insufficient (Orion with
\* fewer than 50 candles, Phoenix with fewer than 60, Atlas with every optional
\* fundamental absent) returns the neutral score 50
C21_NeutralDefault == InsufficientInput => signal.score = 50

\* this step is a tick run again: the market has not moved since the tick before
TickRunAgain == reruns.count >= 1 /\ reruns'.count = reruns.count + 1

TradersKept == \A p \in PersonalitySet : heap'[traders'[p]] = heap[traders[p]]

\* C22 as stated: a tick run a second time on the same market data (the same
\* quote and composite score for every symbol) leaves every trader's cash,
\* positions and trade history as the first run left them
C22_TickIdempotent == [][TickRunAgain => TradersKept]_vars

\* C22: a tick run again on the same market data leaves every trader's cash,
\* positions and trade history as they were, provided no tick on this data
\* has closed a position
C22_IdempotentUnlessClosed == [][(TickRunAgain /\ ~reruns.sold) => TradersKept]_vars

\* a second tick has run on the market after a first one that bought and closed
\* nothing, and a trader holds what the first tick bought
C22_Witness ==
    /\ service = "rerun"
    /\ reruns.count = 2
    /\ ~reruns.sold
    /\ \E p \in PersonalitySet :
          /\ Len(heap[traders[p]].trades) = 1
          /\ heap[traders[p]].trades[1].action = "BUY"
          /\ heap[traders[p]].trades[1].symbol \in DOMAIN heap[traders[p]].positions

\* the composite of the latest decision, from its core and pulse scores and the
\* given news term
Blended(news) ==
    Round(RAdd(RAdd(RMul(outcome.decision.core, Rat(40, 100)),
                    RMul(outcome.decision.pulse, Rat(45, 100))),
               RMul(news, Rat(15, 100))))

\* 50 + newsScore / 2 of the latest decision
HalfNews == RAdd(Int2Rat(50), Rat(outcome.decision.newsScore, 2))

C24_SignalsOfOwnScores ==
    outcome.op = "makeDecision" =>
        /\ outcome.decision.coreSignal = getSignal(Int2Rat(outcome.decision.coreScore))
        /\ outcome.decision.pulseSignal = getSignal(Int2Rat(outcome.decision.pulseScore))
        /\ outcome.decision.finalSignal = getSignal(Int2Rat(outcome.decision.compositeScore))

\* base * (1 - 0.6) + learned * 0.6, slot by slot
BlendOf(baseW, learnedW) ==
    [s \in SlotSet |-> RAdd(RMul(baseW[s], Rat(4, 10)), RMul(learnedW[s], Rat(6, 10)))]

\* `returned` is `weights` renormalized: each slot divided by the sum of the
\* slots, an all-zero vector left as it is
Renormalizes(returned, weights) ==
    IF weights = ZeroWeights THEN returned = weights
    ELSE /\ SlotSum(returned) = Int2Rat(1)
         /\ \A s \in SlotSet : RMul(returned[s], SlotSum(weights)) = weights[s]

\* the weights evaluate is to return for a regime under the stored learnings
ExpectedWeights(regime, config) ==
    IF config = <<>> THEN getBaseWeights(regime)
    ELSE [core  |-> BlendOf(getBaseWeights(regime).core, config[1].coreWeights),
          pulse |-> BlendOf(getBaseWeights(regime).pulse, config[1].pulseWeights)]

\* the result of the evaluate call of this step is the renormalized `expected`
EvaluateReturns(expected) ==
    /\ Renormalizes(outcome'.chiron[1].coreWeights, expected.core)
    /\ Renormalizes(outcome'.chiron[1].pulseWeights, expected.pulse)

\* C25: learned weights persist until explicitly stored or cleared: only
\* storeLearnings and clearLearnings change them, and every evaluate returns,
\* per slot, the renormalized blend base * (1 - 0.6) + learned * 0.6 of the
\* detected regime under the weights stored last, and the normalized base
\* table of the detected regime when none is stored (after clearLearnings)
C25_LearnedPersist ==
    [][outcome' # outcome =>
         /\ dynamicConfig' = dynamicConfig
         /\ outcome'.chiron[1].regime = detectRegime(outcome'.context)
         /\ EvaluateReturns(ExpectedWeights(detectRegime(outcome'.context), dynamicConfig))
      ]_vars

\* the weight slot of a module score: the news is weighed by hermes
SlotOf(k) == IF k = "news" THEN "hermes" ELSE k

\* the value a module score enters an average with: the news as 50 + news / 2
ValueOf(scores, k) ==
    IF k = "news" THEN NormalizedNews(scores[k]) ELSE Int2Rat(scores[k])

\* the sum over the present modules of weight * value, and of the weights
PresentSum(scores, weights) ==
    RSum([i \in 1..Len(ScoreKeys) |->
            IF ScoreKeys[i] \in DOMAIN scores
            THEN RMul(ValueOf(scores, ScoreKeys[i]), weights[SlotOf(ScoreKeys[i])])
            ELSE Int2Rat(0)])

PresentWeight(scores, weights) ==
    RSum([i \in 1..Len(ScoreKeys) |->
            IF ScoreKeys[i] \in DOMAIN scores THEN weights[SlotOf(ScoreKeys[i])]
            ELSE Int2Rat(0)])

\* `score` is the average of the present modules under `weights` renormalized
\* over them: 50 when none of them has a positive weight, the module's own
\* score when a single one is present with a positive weight
AveragesPresent(score, scores, weights) ==
    IF \A k \in DOMAIN scores : ~RLt(Int2Rat(0), weights[SlotOf(k)])
    THEN score = Int2Rat(50)
    ELSE /\ RMul(score, PresentWeight(scores, weights)) = PresentSum(scores, weights)
         /\ \A k \in DOMAIN scores : DOMAIN scores = {k} => score = ValueOf(scores, k)

\* C26: coreScore and pulseScore are weighted averages over the present
\* modules only, the weights renormalized over those modules: an absent
\* module does not enter the result, a single present module with a positive
\* weight yields exactly that module's score, and when no present module has
\* a positive weight the score is the neutral 50
C26_AverageOfPresent ==
    outcome.op = "makeDecision" =>
        /\ AveragesPresent(outcome.decision.core, outcome.decision.moduleScores,
                           outcome.chiron[1].coreWeights)
        /\ AveragesPresent(outcome.decision.pulse, outcome.decision.moduleScores,
                           outcome.chiron[1].pulseWeights)


\* the position of the symbol the latest call bought costs at most
\* MAX_POSITION_SIZE of the portfolio valued at the price of that buy
WithinPositionCap ==
    RLe(CostBasis(positions[call.symbol]),
        RMul(getTotalValue(Ledger, call.symbol, call.price), MAX_POSITION_SIZE))

\* C27: after any sequence of buys on the paper ledger, buys that add to a held
\* position included, the cost of the bought symbol's position (shares *
\* avgCost) is at most MAX_POSITION_SIZE of the total portfolio value at the
\* time of the last buy.
C27_PositionCapped ==
    (service = "paper" /\ call.op = "buy" /\ result = "trade") => WithinPositionCap


\* auto-trading is off and the stored setting says so: setAutoTrading(false)
\* was the latest call of setAutoTrading
DisabledByUser == ~isAutoTrading /\ agentStorage = [saved |-> TRUE, value |-> FALSE]

\* this step is the trading page's switch
UserToggles == isAutoTrading' # isAutoTrading /\ UNCHANGED scans

\* this step is analyzeAndTrade resuming in some scan
AgentSteps == Len(scans') = Len(scans) /\ scans' # scans

\* while auto-trading is disabled no step of AITradingAgent changes the ledger
NoTradeWhileDisabled ==
    [][(service = "scanner" /\ DisabledByUser /\ AgentSteps) =>
          UNCHANGED <<cash, positions, trades>>]_vars

\* C28: while auto-trading is disabled by setAutoTrading(false), AITradingAgent
\* executes no buy and no sell on the paper ledger, and the setting stays
\* disabled until the user calls setAutoTrading(true), scheduled scans of
\* AutoScannerService included.
C28_DisabledStaysDisabled ==
    [][(service = "scanner" /\ DisabledByUser) =>
          /\ AgentSteps => UNCHANGED <<cash, positions, trades>>
          /\ isAutoTrading' => UserToggles]_vars


\* C29: in CryptoBot, after any sequence of construction (loading a state file
\* saved while running included), start, stop and reset, state.isRunning = true
\* implies that intervalId refers to a live timer, so that start() on a bot
\* without a timer always begins ticking.
C29_RunningHasTimer ==
    (service = "bot" /\ botState.isRunning) => botIntervalId \in botTimers


\* technical and macro scores on both sides of the thresholds of the rule
RegimeScores == {0, 39, 40, 59, 60, 100}

\* module results that report orion, aether, both or neither with those scores
RegimeInputs ==
    {[scores |-> scores, sentiment |-> <<>>] :
        scores \in UNION {[present -> RegimeScores] : present \in SUBSET {"orion", "aether"}}}

\* the regime makeDecision weighs the modules of `inputs` under
DecisionRegime(inputs) == makeDecision(inputs, dynamicConfig).chiron.regime

\* every decision made so far was weighed under the Risk-Off or the Neutral table
DecisionRegimes ==
    outcome.op = "makeDecision" => outcome.chiron[1].regime \in {"Risk-Off", "Neutral"}

\* C30: every regime of the priority rule (Risk-Off, Trend, Chop, Neutral) is
\* reachable for the decisions of makeDecision: once decisions are made, there
\* are module inputs for which makeDecision uses the Trend weight table and
\* inputs for which it uses the Chop weight table.
C30_EveryRegimeReachable ==
    outcome.op = "makeDecision" =>
        \A regime \in Regimes :
            \E inputs \in RegimeInputs \cup {moduleInputs} : DecisionRegime(inputs) = regime

=============================================================================
